---- MODULE Spec2Model ----
(***************************************************************************)
(* Access control and audit subsystem of the lead-intake backend           *)
(* (src/server.js, the revision that starts at line 134).                  *)
(*                                                                         *)
(* The document store is modelled as one function per collection, from    *)
(* the ids of the stored documents to the documents.  A request is        *)
(* handled in one step when its handler makes one store call, and in two  *)
(* steps (Begin: middleware, validation, reads; Finish: write, audit,     *)
(* reply) when the handler reads a document and writes it after a later   *)
(* await.  The first reply a request sends is the reply the client gets.  *)
(***************************************************************************)
EXTENDS Integers, Sequences, FiniteSets, TLC

\* ------------------------------------------------------------------ bounds
\* Requests accepted in one run of the lead, admin and login specifications.
MaxReqs == 2
\* Requests accepted in one run of the specification of all gated handlers.
MaxGateReqs == 1
\* Runs of the init-permissions script next to one start of the server.
MaxScriptRuns == 2
\* Requests accepted in one run of the restriction-mode scenario; no
\* specification accepts more.
MaxScenarioReqs == 3

\* ----------------------------------------------------------------- domains
Roles == {"SuperAdmin", "Admin", "ViewMode", "EditMode"}
Null == "null"
Undef == "undefined"
AdminIds == {"a1", "a2", "a3"}
LeadIds == {"l1", "l2"}
\* 24-hex-digit strings; "bulk-update" and "bulk-delete" are 11 characters.
ObjectIds == AdminIds \cup LeadIds
Slots == {"r1", "r2", "r3"}

\* userSchema: the paths of a lead document.
LeadFields == {"name", "email", "contact", "countryCode", "coursename", "location",
               "status", "notes", "assignedTo", "contactedScore", "contactedComment"}

VARIABLES
  admins,        \* Admin collection: id -> document
  leads,         \* User collection (the leads): id -> document
  settings,      \* Settings collection: key -> value
  rolePerms,     \* RolePermission collection: its rows [role, permissions], in insertion order
  auditLog,      \* AuditLog collection, in insertion order
  activityLog,   \* ActivityLog collection, in insertion order
  loginHistory,  \* LoginHistory collection, in insertion order
  tokens,        \* the signed tokens that have been issued and have not expired
  req,           \* per connection slot: the current/last request and its handler's locals
  resp,          \* per connection slot: the reply sent to the current/last request
  boot,          \* progress of the process start-up
  unused,        \* the ObjectIds the store has not handed out yet
  nreq           \* number of requests accepted so far

vars == <<admins, leads, settings, rolePerms, auditLog, activityLog, loginHistory,
          tokens, req, resp, boot, unused, nreq>>

docs == <<admins, leads, settings, rolePerms, unused>>
logs == <<auditLog, activityLog, loginHistory>>

\* ------------------------------------------------------------ small helpers
EmptyObj == [k \in {} |-> Undef]

\* obj[key] of JavaScript: undefined when the key is absent.
Get(obj, k) == IF k \in DOMAIN obj THEN obj[k] ELSE Undef

\* { ...a, ...b }
Merge(a, b) == [k \in DOMAIN a \cup DOMAIN b |-> IF k \in DOMAIN b THEN b[k] ELSE a[k]]

\* the loop "for (const key of allowedFields) if (req.body[key] !== undefined) ..."
PickFields(body, allowed) == [k \in DOMAIN body \cap allowed |-> body[k]]

Idle == [pc |-> "idle"]
NoReply == [n |-> 0, status |-> 0, message |-> "", restricted |-> FALSE, data |-> EmptyObj]

\* res.status(status).json({message, ...})
Reply(status, message) ==
  [n |-> nreq + 1, status |-> status, message |-> message, restricted |-> FALSE,
   data |-> EmptyObj]

ReplyData(status, message, data) == [Reply(status, message) EXCEPT !.data = data]

\* Express sends the first reply of a request; later res.json calls do not replace it.
FirstReply(sent, r) == IF sent.status # 0 THEN sent ELSE r

\* ------------------------------------------------------------ credentials
NoToken == [id |-> Null, role |-> Null, sig |-> "none"]
ForgedToken == [id |-> "a1", role |-> "SuperAdmin", sig |-> "forged"]

\* generateToken: the token carries the admin's id and role at issuance.
generateToken(id, admin) == [id |-> id, role |-> admin.role, sig |-> "ok"]

\* What a client may put in the Authorization header.
Credentials == tokens \cup {NoToken, ForgedToken}

\* ------------------------------------------------------------- middleware
\* A middleware either replies or calls next().
MwNext == [reply |-> NoReply, next |-> TRUE]
MwReply(r) == [reply |-> r, next |-> FALSE]

\* A verification that also looks the token's admin up and wants it active.
authMiddleware_Stateful(cred) ==
  IF cred.sig = "none" THEN MwReply(Reply(401, "Missing token"))
  ELSE IF cred \notin tokens THEN MwReply(Reply(401, "Invalid token"))
  ELSE IF cred.id \notin DOMAIN admins \/ ~admins[cred.id].active
       THEN MwReply(Reply(401, "Invalid token"))
  ELSE MwNext

\* jwt.verify(token, JWT_SECRET): the tokens in `tokens` are signed and unexpired.
authMiddleware(cred) ==
  IF cred.sig = "none" THEN MwReply(Reply(401, "Missing token"))
  ELSE IF cred \notin tokens THEN MwReply(Reply(401, "Invalid token"))
  ELSE MwNext

\* A role gate that replies 403 and still calls next().
requireRole_NoReturn(roles, cred) ==
  IF cred.role \notin roles
  THEN [reply |-> Reply(403, "Forbidden"), next |-> TRUE]
  ELSE MwNext

\* A gate that also asks the stored grant of the caller's role.
requireRole_ByGrant(roles, cred) ==
  IF cred.role \notin roles
       \/ ~\E i \in DOMAIN rolePerms :
              rolePerms[i].role = cred.role /\ rolePerms[i].permissions.leads.delete
  THEN MwReply(Reply(403, "Forbidden"))
  ELSE MwNext

\* A gate that looks the admin up and judges the role stored now.
requireRole_StoredRole(roles, cred) ==
  IF cred.id \notin DOMAIN admins \/ admins[cred.id].role \notin roles
  THEN MwReply(Reply(403, "Forbidden"))
  ELSE MwNext

requireRole(roles, cred) ==
  IF cred.role \notin roles THEN MwReply(Reply(403, "Forbidden")) ELSE MwNext

\* app.METHOD(path, authMiddleware, requireRole(roles), handler)
Gated(roles, cred) ==
  LET a == authMiddleware(cred) IN
  IF ~a.next THEN a ELSE requireRole(roles, cred)

\* mongoose.Types.ObjectId.isValid
IsValidObjectId(id) == id \in ObjectIds

\* ------------------------------------------------------------- the recorder
\* AuditLog.create: the write may fail (stored = FALSE); logAction swallows it.
\* For a lead target, logAction re-reads the lead from the store as it is now
\* and overwrites leadName/leadEmail/leadContact of the metadata with it.
\* A recorder that keeps one entry: a new entry is written over the last one.
logAction_Overwrite(log, leadsNow, adminId, action, target, metadata, stored) ==
  LET entry == [adminId |-> adminId, action |-> action, target |-> target,
                metadata |-> metadata]
  IN IF ~stored THEN log
     ELSE IF Len(log) = 0 THEN <<entry>>
     ELSE [log EXCEPT ![Len(log)] = entry]

logAction(log, leadsNow, adminId, action, target, metadata, stored) ==
  LET uid == Get(metadata, "userId")
      enrich == target = "User" /\ uid # Undef /\ uid \in DOMAIN leadsNow
      md == IF enrich
            THEN Merge(metadata, [leadName |-> leadsNow[uid].name,
                                  leadEmail |-> leadsNow[uid].email,
                                  leadContact |-> leadsNow[uid].contact])
            ELSE metadata
  IN IF stored
     THEN Append(log, [adminId |-> adminId, action |-> action, target |-> target,
                       metadata |-> md])
     ELSE log

\* ------------------------------------------------------------ store calls
\* A write that replaces the document: paths the update does not name are reset.
FindByIdAndUpdate_Replace(coll, id, updateFields) ==
  IF id \in DOMAIN coll
  THEN [coll EXCEPT ![id] = [k \in DOMAIN coll[id] |->
                               IF k \in DOMAIN updateFields THEN updateFields[k] ELSE Undef]]
  ELSE coll

\* User.findByIdAndUpdate(id, updateFields, {new: true}): null when absent.
FindByIdAndUpdate(coll, id, updateFields) ==
  IF id \in DOMAIN coll
  THEN [coll EXCEPT ![id] = Merge(coll[id], updateFields)]
  ELSE coll

\* Model.findByIdAndDelete(id)
FindByIdAndDelete(coll, id) == [k \in DOMAIN coll \ {id} |-> coll[k]]

\* Model.create(doc) stores doc under a new ObjectId.
NewId(ids) == CHOOSE id \in ids : id \in unused
HasNewId(ids) == ids \cap unused # {}
Insert(coll, id, doc) == [k \in DOMAIN coll \cup {id} |-> IF k = id THEN doc ELSE coll[k]]

\* .populate('assignedTo', ...): null when the referenced admin is gone.
Populate(lead) ==
  IF lead.assignedTo \in DOMAIN admins THEN lead
  ELSE [lead EXCEPT !.assignedTo = Null]

\* const restrictLeadEditing = setting ? setting.value : false
restrictLeadEditing ==
  IF "restrictLeadEditing" \in DOMAIN settings THEN settings["restrictLeadEditing"]
  ELSE FALSE

\* the metadata of update_lead: {from, to} for each key of updateFields
Changes(originalLead, updateFields) ==
  [k \in DOMAIN updateFields |->
     [from |-> Get(originalLead, k), to |-> updateFields[k]]]

\* An object of plain values as a log entry holds it: a plain value v is
\* written [value |-> v]; it has no "from" and no "to".
Plain(obj) == [k \in DOMAIN obj |-> [value |-> obj[k]]]

MetadataWithChanges(id, originalLead, updateFields) ==
  [userId |-> id,
   leadName |-> originalLead.name,
   leadEmail |-> originalLead.email,
   leadContact |-> originalLead.contact,
   updateFields |-> Changes(originalLead, updateFields)]

\* ------------------------------------------------------- request life cycle
\* app.listen has bound the port and the process has not exited.
Listening == boot.listening

\* Mongoose buffers a handler's store calls until the connection is up: the
\* model takes a request up when the server listens and the store is connected.
CanBegin(s) ==
  /\ nreq < MaxScenarioReqs
  /\ Listening /\ boot.db = "connected"
  /\ req[s].pc \in {"idle", "done"}

\* Slot s may take a step: to accept a request within the budget, or to resume.
Within(s, max) == nreq < max \/ req[s].pc = "write"

\* The request line: the route, the Authorization header, the :id parameter.
Request(op, cred, id) == [pc |-> "done", op |-> op, n |-> nreq + 1, admin |-> cred, id |-> id]

\* The request is answered in the step that accepts it.
Answer(s, r, request) ==
  /\ resp' = [resp EXCEPT ![s] = r]
  /\ req' = [req EXCEPT ![s] = request]
  /\ nreq' = nreq + 1

\* The handler goes on after an await: the slot holds its local variables.
Suspend(s, sent, request, locals) ==
  /\ resp' = [resp EXCEPT ![s] = sent]
  /\ req' = [req EXCEPT ![s] = Merge([request EXCEPT !.pc = "write"], locals)]
  /\ nreq' = nreq + 1

\* The handler resumes, and replies unless a reply was already sent.
Finish(s, r) ==
  /\ resp' = [resp EXCEPT ![s] = FirstReply(resp[s], [r EXCEPT !.n = req[s].n])]
  /\ req' = [req EXCEPT ![s].pc = "done"]
  /\ nreq' = nreq

\* ---------------------------------------------- PUT /api/leads/:id
PutLeadRoles == {"SuperAdmin", "Admin", "EditMode"}
PutLeadFields == LeadFields

\* The replies before the write: middleware, id format, lead lookup.
PutLeadCheck(cred, id) ==
  LET mw == Gated(PutLeadRoles, cred) IN
  IF ~mw.next THEN mw
  ELSE IF ~IsValidObjectId(id)
       THEN [mw EXCEPT !.reply = FirstReply(mw.reply, Reply(400, "Invalid lead ID format.")),
                       !.next = FALSE]
  ELSE IF id \notin DOMAIN leads
       THEN [mw EXCEPT !.reply = FirstReply(mw.reply, Reply(404, "Lead not found.")),
                       !.next = FALSE]
  ELSE mw

PutLeadBegin(s, cred, id, body) ==
  /\ CanBegin(s)
  /\ LET chk == PutLeadCheck(cred, id) IN
     IF ~chk.next THEN Answer(s, chk.reply, Request("put_lead", cred, id))
     ELSE Suspend(s, chk.reply, Request("put_lead", cred, id),
                  [updateFields |-> PickFields(body, PutLeadFields),
                   originalLead |-> leads[id]])
  /\ UNCHANGED <<docs, logs, tokens, boot>>

\* findByIdAndUpdate, logAction, res.status(200)
UpdateLeadFinish(s, op, stored) ==
  /\ req[s].pc = "write" /\ req[s].op = op
  /\ LET r == req[s]
         after == FindByIdAndUpdate(leads, r.id, r.updateFields)
     IN /\ leads' = after
        /\ auditLog' = logAction(auditLog, after, r.admin.id, "update_lead", "User",
                                 MetadataWithChanges(r.id, r.originalLead, r.updateFields),
                                 stored)
        /\ Finish(s, ReplyData(200, "Lead updated successfully.",
                               IF r.id \in DOMAIN after THEN after[r.id] ELSE EmptyObj))
  /\ UNCHANGED <<admins, settings, rolePerms, unused, activityLog, loginHistory, tokens, boot>>

PutLeadFinish(s, stored) == UpdateLeadFinish(s, "put_lead", stored)

\* ---------------------------------------------- PATCH /api/leads/:id
PatchLeadRoles == {"SuperAdmin", "Admin", "EditMode", "ViewMode"}

\* A field list that is the same for every role.
PatchLeadFields_AnyRole(role) ==
  {"contactedScore", "contactedComment", "status"} \cup
  {"name", "email", "contact", "countryCode", "coursename", "location", "notes",
   "assignedTo"}

PatchLeadFields(role) ==
  IF role \in {"SuperAdmin", "Admin", "EditMode"}
  THEN {"contactedScore", "contactedComment", "status"} \cup
       {"name", "email", "contact", "countryCode", "coursename", "location", "notes",
        "assignedTo"}
  ELSE {"contactedScore", "contactedComment", "status"}

\* An ownership gate that leaves unassigned leads open to everybody.
RestrictionDenies_AssignedElsewhere(cred, originalLead) ==
  /\ restrictLeadEditing
  /\ cred.role # "SuperAdmin" /\ cred.role # "Admin"
  /\ originalLead.assignedTo # Null
  /\ originalLead.assignedTo # cred.id

\* The ownership gate of restriction mode.
RestrictionDenies(cred, originalLead) ==
  /\ restrictLeadEditing
  /\ cred.role # "SuperAdmin" /\ cred.role # "Admin"
  /\ originalLead.assignedTo # cred.id

\* The restriction denial without its restricted flag.
RestrictedReply_Unmarked ==
  Reply(403, "You can only edit leads assigned to you when restriction mode is enabled.")

RestrictedReply ==
  [Reply(403, "You can only edit leads assigned to you when restriction mode is enabled.")
     EXCEPT !.restricted = TRUE]

PatchLeadCheck(cred, id) ==
  LET mw == Gated(PatchLeadRoles, cred) IN
  IF ~mw.next THEN mw
  ELSE IF ~IsValidObjectId(id)
       THEN [mw EXCEPT !.reply = FirstReply(mw.reply, Reply(400, "Invalid lead ID format.")),
                       !.next = FALSE]
  ELSE IF id \notin DOMAIN leads
       THEN [mw EXCEPT !.reply = FirstReply(mw.reply, Reply(404, "Lead not found.")),
                       !.next = FALSE]
  ELSE IF RestrictionDenies(cred, Populate(leads[id]))
       THEN [mw EXCEPT !.reply = FirstReply(mw.reply, RestrictedReply), !.next = FALSE]
  ELSE mw

PatchLeadBegin(s, cred, id, body) ==
  /\ CanBegin(s)
  /\ LET chk == PatchLeadCheck(cred, id) IN
     IF ~chk.next THEN Answer(s, chk.reply, Request("patch_lead", cred, id))
     ELSE Suspend(s, chk.reply, Request("patch_lead", cred, id),
                  [updateFields |-> PickFields(body, PatchLeadFields(cred.role)),
                   originalLead |-> Populate(leads[id])])
  /\ UNCHANGED <<docs, logs, tokens, boot>>

PatchLeadFinish(s, stored) == UpdateLeadFinish(s, "patch_lead", stored)

\* ---------------------------------------------- DELETE /api/leads/:id
DeleteLeadRoles == {"SuperAdmin", "Admin"}

DeleteLeadCheck(cred, id) ==
  LET mw == Gated(DeleteLeadRoles, cred) IN
  IF ~mw.next THEN mw
  ELSE IF ~IsValidObjectId(id)
       THEN [mw EXCEPT !.reply = FirstReply(mw.reply, Reply(400, "Invalid lead ID format.")),
                       !.next = FALSE]
  ELSE IF id \notin DOMAIN leads
       THEN [mw EXCEPT !.reply = FirstReply(mw.reply, Reply(404, "Lead not found.")),
                       !.next = FALSE]
  ELSE mw

DeleteLeadBegin(s, cred, id) ==
  /\ CanBegin(s)
  /\ LET chk == DeleteLeadCheck(cred, id) IN
     IF ~chk.next THEN Answer(s, chk.reply, Request("delete_lead", cred, id))
     ELSE Suspend(s, chk.reply, Request("delete_lead", cred, id),
                  [leadToDelete |-> leads[id]])
  /\ UNCHANGED <<docs, logs, tokens, boot>>

DeleteLeadFinish(s, stored) ==
  /\ req[s].pc = "write" /\ req[s].op = "delete_lead"
  /\ LET r == req[s]
         after == FindByIdAndDelete(leads, r.id)
     IN /\ leads' = after
        /\ auditLog' = logAction(auditLog, after, r.admin.id, "delete_lead", "User",
                                 [leadId |-> r.id, userId |-> r.id,
                                  leadName |-> r.leadToDelete.name,
                                  leadEmail |-> r.leadToDelete.email,
                                  leadContact |-> r.leadToDelete.contact,
                                  leadStatus |-> r.leadToDelete.status],
                                 stored)
        /\ Finish(s, Reply(200, "Lead deleted successfully."))
  /\ UNCHANGED <<admins, settings, rolePerms, unused, activityLog, loginHistory, tokens, boot>>

\* ---------------------------------------------- PUT /api/users/:id
PutUserRoles == {"SuperAdmin", "Admin", "EditMode"}

PutUser(s, cred, id, body, stored) ==
  /\ CanBegin(s)
  /\ LET mw == Gated(PutUserRoles, cred)
         updateFields == PickFields(body, LeadFields)
         after == FindByIdAndUpdate(leads, id, updateFields)
     IN IF ~mw.next
        THEN /\ Answer(s, mw.reply, Request("put_user", cred, id))
             /\ UNCHANGED <<leads, auditLog>>
        ELSE IF ~IsValidObjectId(id)
             THEN /\ Answer(s, FirstReply(mw.reply, Reply(400, "Invalid user ID.")),
                         Request("put_user", cred, id))
                  /\ UNCHANGED <<leads, auditLog>>
        ELSE IF id \notin DOMAIN leads
             THEN /\ Answer(s, FirstReply(mw.reply, Reply(404, "User not found.")),
                         Request("put_user", cred, id))
                  /\ UNCHANGED <<leads, auditLog>>
        ELSE /\ leads' = after
             /\ auditLog' = logAction(auditLog, after, cred.id, "update_user", "User",
                                      [userId |-> id, updateFields |-> Plain(updateFields)],
                                      stored)
             /\ Answer(s, FirstReply(mw.reply, ReplyData(200, "User updated.", after[id])),
                         Merge(Request("put_user", cred, id), [updateFields |-> updateFields]))
  /\ UNCHANGED <<admins, settings, rolePerms, unused, activityLog, loginHistory, tokens, boot>>

\* ---------------------------------------------- DELETE /api/users/:id
DeleteUserRoles == {"SuperAdmin", "Admin"}

DeleteUser(s, cred, id, stored) ==
  /\ CanBegin(s)
  /\ LET mw == Gated(DeleteUserRoles, cred)
         after == FindByIdAndDelete(leads, id)
     IN IF ~mw.next
        THEN /\ Answer(s, mw.reply, Request("delete_user", cred, id))
             /\ UNCHANGED <<leads, auditLog>>
        ELSE IF ~IsValidObjectId(id)
             THEN /\ Answer(s, FirstReply(mw.reply, Reply(400, "Invalid user ID.")),
                         Request("delete_user", cred, id))
                  /\ UNCHANGED <<leads, auditLog>>
        ELSE IF id \notin DOMAIN leads
             THEN /\ Answer(s, FirstReply(mw.reply, Reply(404, "User not found.")),
                         Request("delete_user", cred, id))
                  /\ UNCHANGED <<leads, auditLog>>
        ELSE /\ leads' = after
             /\ auditLog' = logAction(auditLog, after, cred.id, "delete_user", "User",
                                      [userId |-> id], stored)
             /\ Answer(s, FirstReply(mw.reply, Reply(200, "User deleted.")),
                         Request("delete_user", cred, id))
  /\ UNCHANGED <<admins, settings, rolePerms, unused, activityLog, loginHistory, tokens, boot>>

\* ------------------------------------------------------- the stored state
\* bcrypt.hash / bcrypt.compare: a one-way image of the plaintext.
Passwords == {"pw1", "pw2"}
bcryptHash(p) == CASE p = "pw1" -> "$2a$pw1" [] p = "pw2" -> "$2a$pw2" [] OTHER -> "$2a$"
bcryptCompare(p, hashed) == hashed = bcryptHash(p)

\* adminSchema, with its defaults
AdminDoc(username, password, email, role) ==
  [username |-> username, password |-> bcryptHash(password), email |-> email, role |-> role,
   active |-> TRUE, location |-> "Other", color |-> "#4299e1", lastLogin |-> 0]

\* userSchema, with its defaults, as /api/submit stores a lead
LeadDoc(name, email, contact, assignedTo) ==
  [name |-> name, email |-> email, contact |-> contact, countryCode |-> Undef,
   coursename |-> "N/A", location |-> "N/A", status |-> "New", notes |-> "",
   assignedTo |-> assignedTo, contactedScore |-> Undef, contactedComment |-> Undef]

\* rolePermissionSchema and the four default grants of initializeRolePermissions
Crud(c, r, u, d) == [create |-> c, read |-> r, update |-> u, delete |-> d]
Grid(users, leadsG, adminsG, analytics, auditLogs) ==
  [users |-> users, leads |-> leadsG, admins |-> adminsG,
   analytics |-> [view |-> analytics], auditLogs |-> [view |-> auditLogs]]

DefaultGrant(role) ==
  CASE role = "SuperAdmin" ->
         Grid(Crud(TRUE, TRUE, TRUE, TRUE), Crud(TRUE, TRUE, TRUE, TRUE),
              Crud(TRUE, TRUE, TRUE, TRUE), TRUE, TRUE)
    [] role = "Admin" ->
         Grid(Crud(TRUE, TRUE, TRUE, TRUE), Crud(TRUE, TRUE, TRUE, TRUE),
              Crud(FALSE, TRUE, FALSE, FALSE), TRUE, FALSE)
    [] role = "ViewMode" ->
         Grid(Crud(FALSE, TRUE, FALSE, FALSE), Crud(FALSE, TRUE, FALSE, FALSE),
              Crud(FALSE, FALSE, FALSE, FALSE), FALSE, FALSE)
    [] role = "EditMode" ->
         Grid(Crud(TRUE, TRUE, TRUE, FALSE), Crud(TRUE, TRUE, TRUE, FALSE),
              Crud(FALSE, FALSE, FALSE, FALSE), FALSE, FALSE)

\* The four default grants of src/init-permissions.js.
ScriptGrant(role) ==
  CASE role = "SuperAdmin" ->
         Grid(Crud(TRUE, TRUE, TRUE, TRUE), Crud(TRUE, TRUE, TRUE, TRUE),
              Crud(TRUE, TRUE, TRUE, TRUE), TRUE, TRUE)
    [] role = "Admin" ->
         Grid(Crud(TRUE, TRUE, TRUE, TRUE), Crud(TRUE, TRUE, TRUE, TRUE),
              Crud(FALSE, TRUE, FALSE, FALSE), TRUE, FALSE)
    [] role = "ViewMode" ->
         Grid(Crud(FALSE, FALSE, FALSE, FALSE), Crud(FALSE, TRUE, FALSE, FALSE),
              Crud(FALSE, FALSE, FALSE, FALSE), FALSE, FALSE)
    [] role = "EditMode" ->
         Grid(Crud(FALSE, FALSE, FALSE, FALSE), Crud(TRUE, TRUE, TRUE, TRUE),
              Crud(FALSE, FALSE, FALSE, FALSE), FALSE, FALSE)

\* A row of the RolePermission collection.
GrantRow(role, permissions) == [role |-> role, permissions |-> permissions]
RolesOf(table) == {table[i].role : i \in DOMAIN table}
\* RolePermission.findOne({role}): the position of the first row of the role.
FindGrant(table, role) ==
  CHOOSE i \in DOMAIN table :
    table[i].role = role /\ \A j \in DOMAIN table : table[j].role = role => i <= j

\* role: {unique: true}: without the index every insert is accepted.
RoleIsUnique_NoIndex(table, role) == TRUE

\* role: {unique: true}: the index rejects a second row of a role.
RoleIsUnique(table, role) == role \notin RolesOf(table)

\* The order in which initializeRolePermissions creates the grants.
SeedOrder == <<"SuperAdmin", "Admin", "ViewMode", "EditMode">>
SeedAfter(role) ==
  CASE role = "SuperAdmin" -> "Admin" [] role = "Admin" -> "ViewMode"
    [] role = "ViewMode" -> "EditMode" [] OTHER -> "done"

\* The database a running deployment holds: the bootstrap SuperAdmin of
\* create-admin.js, a second admin of any non-super role, one submitted lead
\* (unassigned or assigned to the second admin), and the restriction setting
\* absent, off or on.  Both admins hold a token from an earlier login.
StoredState ==
  /\ \E role \in Roles \ {"SuperAdmin"} :
       admins = [a \in {"a1", "a2"} |->
                   IF a = "a1" THEN AdminDoc("root", "pw1", Undef, "SuperAdmin")
                   ELSE AdminDoc("ed", "pw2", "ed@x.io", role)]
  /\ \E assignee \in {Null, "a2"} :
       leads = [l \in {"l1"} |-> LeadDoc("n1", "e1", "c1", assignee)]
  /\ \E st \in {EmptyObj, [restrictLeadEditing |-> FALSE], [restrictLeadEditing |-> TRUE]} :
       settings = st
  /\ auditLog = << >>
  /\ activityLog = << >>
  /\ loginHistory = << >>
  /\ tokens = {generateToken(a, admins[a]) : a \in {"a1", "a2"}}
  /\ req = [s \in Slots |-> Idle]
  /\ resp = [s \in Slots |-> NoReply]
  /\ unused = {"a3", "l2"}
  /\ nreq = 0

\* The serving process with restriction mode switched on, a SuperAdmin, an
\* EditMode user and an Admin, and one new lead assigned to nobody.
InitScenario ==
  /\ admins = [a \in AdminIds |->
                 IF a = "a1" THEN AdminDoc("root", "pw1", Undef, "SuperAdmin")
                 ELSE IF a = "a2" THEN AdminDoc("ed", "pw2", "ed@x.io", "EditMode")
                 ELSE AdminDoc("adm", "pw3", "adm@x.io", "Admin")]
  /\ leads = [l \in {"l1"} |-> LeadDoc("n1", "e1", "c1", Null)]
  /\ settings = [restrictLeadEditing |-> TRUE]
  /\ auditLog = << >>
  /\ activityLog = << >>
  /\ loginHistory = << >>
  /\ tokens = {generateToken(a, admins[a]) : a \in AdminIds}
  /\ req = [s \in Slots |-> Idle]
  /\ resp = [s \in Slots |-> NoReply]
  /\ unused = {"l2"}
  /\ nreq = 0
  /\ rolePerms = [i \in 1..4 |-> GrantRow(SeedOrder[i], DefaultGrant(SeedOrder[i]))]
  /\ boot = [listening |-> TRUE, db |-> "connected", seed |-> "done", defaults |-> "done",
             script |-> "idle", runs |-> 0]

\* The serving process before the first lead has been stored.
InitNoLeads ==
  /\ \E role \in Roles \ {"SuperAdmin"} :
       admins = [a \in {"a1", "a2"} |->
                   IF a = "a1" THEN AdminDoc("root", "pw1", Undef, "SuperAdmin")
                   ELSE AdminDoc("ed", "pw2", "ed@x.io", role)]
  /\ leads = [l \in {} |-> LeadDoc("n1", "e1", "c1", Null)]
  /\ settings = EmptyObj
  /\ auditLog = << >>
  /\ activityLog = << >>
  /\ loginHistory = << >>
  /\ tokens = {generateToken(a, admins[a]) : a \in {"a1", "a2"}}
  /\ req = [s \in Slots |-> Idle]
  /\ resp = [s \in Slots |-> NoReply]
  /\ unused = {"a3", "l1", "l2"}
  /\ nreq = 0
  /\ rolePerms = [i \in 1..4 |-> GrantRow(SeedOrder[i], DefaultGrant(SeedOrder[i]))]
  /\ boot = [listening |-> TRUE, db |-> "connected", seed |-> "done", defaults |-> "done",
             script |-> "idle", runs |-> 0]

\* The server after start-up has finished.
InitServing ==
  /\ StoredState
  /\ rolePerms = [i \in 1..4 |-> GrantRow(SeedOrder[i], DefaultGrant(SeedOrder[i]))]
  /\ boot = [listening |-> TRUE, db |-> "connected", seed |-> "done", defaults |-> "done",
             script |-> "idle", runs |-> 0]

\* The process right after the module has loaded, on a database whose grant
\* table is still empty (first start) or was seeded by an earlier start; the
\* restriction setting is absent or was switched on through the API.
InitBoot ==
  /\ StoredState
  /\ ("restrictLeadEditing" \in DOMAIN settings => settings["restrictLeadEditing"])
  /\ \E seeded \in {0, 4} :
       rolePerms = [i \in 1..seeded |-> GrantRow(SeedOrder[i], DefaultGrant(SeedOrder[i]))]
  /\ boot = [listening |-> FALSE, db |-> "connecting", seed |-> "idle", defaults |-> "idle",
             script |-> "idle", runs |-> 0]

\* The first start of a deployment: no grant has been stored yet.
InitSeed == InitBoot /\ rolePerms = << >>

\* ---------------------------------------------------------------- start-up
\* app.listen(PORT, '0.0.0.0', ...) at the end of the module: the port is
\* bound whether or not the store is connected and seeded.
Listen ==
  /\ ~boot.listening /\ boot.db # "failed"
  /\ boot' = [boot EXCEPT !.listening = TRUE]
  /\ UNCHANGED <<docs, logs, tokens, req, resp, nreq>>

\* mongoose.connect(...).then: both initializers are started, neither awaited.
Connected ==
  /\ boot.db = "connecting"
  /\ boot' = [boot EXCEPT !.db = "connected", !.seed = "count", !.defaults = "find"]
  /\ UNCHANGED <<docs, logs, tokens, req, resp, nreq>>

\* mongoose.connect(...).catch: process.exit(1)
ConnectFailed ==
  /\ boot.db = "connecting"
  /\ boot' = [boot EXCEPT !.db = "failed", !.listening = FALSE]
  /\ UNCHANGED <<docs, logs, tokens, req, resp, nreq>>

\* const count = await RolePermission.countDocuments(); if (count === 0) ...
SeedCount ==
  /\ boot.seed = "count"
  /\ boot' = [boot EXCEPT !.seed = IF Len(rolePerms) = 0 THEN SeedOrder[1] ELSE "done"]
  /\ UNCHANGED <<docs, logs, tokens, req, resp, nreq>>

\* await RolePermission.create({role, permissions}): a rejected create (the
\* unique index on role, a store error) ends the seeding in the catch block.
SeedCreate(stored) ==
  /\ boot.seed \in Roles
  /\ IF stored /\ RoleIsUnique(rolePerms, boot.seed)
     THEN /\ rolePerms' = Append(rolePerms, GrantRow(boot.seed, DefaultGrant(boot.seed)))
          /\ boot' = [boot EXCEPT !.seed = SeedAfter(boot.seed)]
     ELSE /\ rolePerms' = rolePerms
          /\ boot' = [boot EXCEPT !.seed = "done"]
  /\ UNCHANGED <<admins, leads, settings, unused, logs, tokens, req, resp, nreq>>

\* -------------------------------------------- node init-permissions.js
\* The script connects on its own and runs next to the server or alone.
ScriptStart ==
  /\ boot.script \in {"idle", "done"} /\ boot.runs < MaxScriptRuns
  /\ boot' = [boot EXCEPT !.script = "count", !.runs = @ + 1]
  /\ UNCHANGED <<docs, logs, tokens, req, resp, nreq>>

\* const count = await RolePermission.countDocuments(); if (count === 0) ...
ScriptCount ==
  /\ boot.script = "count"
  /\ boot' = [boot EXCEPT !.script = IF Len(rolePerms) = 0 THEN SeedOrder[1] ELSE "done"]
  /\ UNCHANGED <<docs, logs, tokens, req, resp, nreq>>

\* await RolePermission.create({role, permissions}); a rejected create ends
\* the script in its catch block (process.exit(1)).
ScriptCreate(stored) ==
  /\ boot.script \in Roles
  /\ IF stored /\ RoleIsUnique(rolePerms, boot.script)
     THEN /\ rolePerms' = Append(rolePerms, GrantRow(boot.script, ScriptGrant(boot.script)))
          /\ boot' = [boot EXCEPT !.script = SeedAfter(boot.script)]
     ELSE /\ rolePerms' = rolePerms
          /\ boot' = [boot EXCEPT !.script = "done"]
  /\ UNCHANGED <<admins, leads, settings, unused, logs, tokens, req, resp, nreq>>

\* initializeDefaultSettings: findOne({key}), then create when absent.
DefaultsFind ==
  /\ boot.defaults = "find"
  /\ boot' = [boot EXCEPT !.defaults = IF "restrictLeadEditing" \in DOMAIN settings
                                        THEN "done" ELSE "create"]
  /\ UNCHANGED <<docs, logs, tokens, req, resp, nreq>>

DefaultsCreate ==
  /\ boot.defaults = "create"
  /\ settings' = IF "restrictLeadEditing" \in DOMAIN settings THEN settings
                 ELSE Merge(settings, [restrictLeadEditing |-> FALSE])
  /\ boot' = [boot EXCEPT !.defaults = "done"]
  /\ UNCHANGED <<admins, leads, rolePerms, unused, logs, tokens, req, resp, nreq>>

\* ---------------------------------------------- POST /api/admin-login
\* A body field the client did not send.
Missing == ""

\* username.includes('@')
LooksLikeEmail(identifier) == identifier \in {"ed@x.io", "ED@X.IO", "no@x.io"}

\* username.toLowerCase().trim()
LowerTrim(identifier) == IF identifier = "ED@X.IO" THEN "ed@x.io" ELSE identifier

\* Admin.findOne({username, active: true}), then by e-mail; Null when none.
FindActiveAdmin(identifier) ==
  LET byName == {a \in DOMAIN admins :
                   admins[a].username = identifier /\ admins[a].active}
      byMail == {a \in DOMAIN admins :
                   admins[a].email = LowerTrim(identifier) /\ admins[a].active}
  IN IF byName # {} THEN CHOOSE a \in byName : TRUE
     ELSE IF LooksLikeEmail(identifier) /\ byMail # {} THEN CHOOSE a \in byMail : TRUE
     ELSE Null

\* loginHistorySchema: adminId is required, so a null adminId fails validation.
LoginHistoryValid(entry) == entry.adminId # Null

\* await LoginHistory.create(entry): rejects on a validation or a store error.
LoginHistoryCreated(entry, stored) == LoginHistoryValid(entry) /\ stored

LoginEntry(adminId, success) == [adminId |-> adminId, success |-> success]

\* The admin the handler matched, the LoginHistory entry it writes, and the
\* reply it sends when that write succeeds.
LoginAttempt(username, password) ==
  LET a == FindActiveAdmin(username) IN
  IF a = Null
  THEN [admin |-> Null, entry |-> LoginEntry(Null, FALSE),
        reply |-> Reply(401, "Invalid username/email or password.")]
  ELSE IF ~bcryptCompare(password, admins[a].password)
  THEN [admin |-> a, entry |-> LoginEntry(a, FALSE),
        reply |-> Reply(401, "Invalid username/email or password.")]
  ELSE [admin |-> a, entry |-> LoginEntry(a, TRUE),
        reply |-> ReplyData(200, "Login successful.",
                            [token |-> generateToken(a, admins[a]), role |-> admins[a].role,
                             username |-> admins[a].username, id |-> a])]

LoginRequest(username, password) ==
  Merge(Request("login", NoToken, Null), [username |-> username, password |-> password])

Login(s, username, password, stored, audited) ==
  /\ CanBegin(s)
  /\ LET att == LoginAttempt(username, password)
         ok == att.reply.status = 200
         created == LoginHistoryCreated(att.entry, stored)
     IN IF username = Missing \/ password = Missing
        THEN /\ Answer(s, Reply(400, "Username and password required."),
                       LoginRequest(username, password))
             /\ UNCHANGED <<admins, loginHistory, auditLog, tokens>>
        ELSE /\ admins' = IF ok THEN [admins EXCEPT ![att.admin].lastLogin = nreq + 1]
                          ELSE admins
             /\ loginHistory' = IF created THEN Append(loginHistory, att.entry)
                                ELSE loginHistory
             /\ tokens' = IF ok /\ created THEN tokens \cup {att.reply.data.token} ELSE tokens
             /\ auditLog' = IF ok /\ created
                            THEN logAction(auditLog, leads, att.admin, "login", "Admin",
                                           EmptyObj, audited)
                            ELSE auditLog
             /\ Answer(s, IF created THEN att.reply ELSE Reply(500, "Server error."),
                       LoginRequest(username, password))
  /\ UNCHANGED <<leads, settings, rolePerms, unused, activityLog, boot>>

\* ---------------------------------------------- POST /api/activity
\* activityLogSchema: adminId and action are required.
ActivityValid(entry) == entry.adminId # Undef /\ entry.action # Undef

\* trackActivity: ActivityLog.create inside try/catch
trackActivity(log, adminId, action, page, stored) ==
  LET entry == [adminId |-> adminId, action |-> action, page |-> page] IN
  IF ActivityValid(entry) /\ stored THEN Append(log, entry) ELSE log

PostActivity(s, cred, action, stored) ==
  /\ CanBegin(s)
  /\ LET mw == authMiddleware(cred) IN
     IF ~mw.next
     THEN Answer(s, mw.reply, Request("activity", cred, Null)) /\ UNCHANGED activityLog
     ELSE /\ activityLog' = trackActivity(activityLog, cred.id, action, "dashboard", stored)
          /\ Answer(s, Reply(200, "Activity logged."), Request("activity", cred, Null))
  /\ UNCHANGED <<docs, auditLog, loginHistory, tokens, boot>>

\* ---------------------------------------------- POST /api/admins
AdminRoles == {"SuperAdmin"}

PostAdmin(s, cred, body, stored) ==
  /\ CanBegin(s)
  /\ LET mw == Gated(AdminRoles, cred)
         rq == Request("create_admin", cred, Null)
         username == Get(body, "username")
         password == Get(body, "password")
         role == Get(body, "role")
         id == NewId(AdminIds)
         doc == AdminDoc(username, password, Get(body, "email"), role)
     IN IF ~mw.next THEN Answer(s, mw.reply, rq) /\ UNCHANGED <<admins, unused, auditLog>>
        ELSE IF username = Undef \/ password = Undef \/ role = Undef
             THEN /\ Answer(s, FirstReply(mw.reply,
                              Reply(400, "Username, password, and role are required.")), rq)
                  /\ UNCHANGED <<admins, unused, auditLog>>
        ELSE IF role \notin Roles
             THEN /\ Answer(s, FirstReply(mw.reply, Reply(400, "Invalid role.")), rq)
                  /\ UNCHANGED <<admins, unused, auditLog>>
        ELSE IF \E a \in DOMAIN admins : admins[a].username = username
             THEN /\ Answer(s, FirstReply(mw.reply, Reply(409, "Username already exists.")), rq)
                  /\ UNCHANGED <<admins, unused, auditLog>>
        ELSE /\ HasNewId(AdminIds)
             /\ admins' = Insert(admins, id, doc)
             /\ unused' = unused \ {id}
             /\ auditLog' = logAction(auditLog, leads, cred.id, "create_admin", "Admin",
                                      [adminId |-> id, username |-> username, role |-> role],
                                      stored)
             /\ Answer(s, FirstReply(mw.reply,
                         ReplyData(201, "Admin created.",
                                   [id |-> id, username |-> username, role |-> role,
                                    active |-> doc.active])),
                       [rq EXCEPT !.id = id])
  /\ UNCHANGED <<leads, settings, rolePerms, activityLog, loginHistory, tokens, boot>>

\* ---------------------------------------------- PUT /api/admins/:id
\* const updateFields = {}; if (role) ...; if (password) updateFields.password = hash; ...
AdminUpdateFields(body) ==
  [k \in DOMAIN body \cap {"role", "active", "password", "email", "location", "color"} |->
     IF k = "password" THEN bcryptHash(body[k]) ELSE body[k]]

PutAdmin(s, cred, id, body, stored) ==
  /\ CanBegin(s)
  /\ LET mw == Gated(AdminRoles, cred)
         rq == Request("update_admin", cred, id)
         updateFields == AdminUpdateFields(body)
         after == FindByIdAndUpdate(admins, id, updateFields)
     IN IF ~mw.next THEN Answer(s, mw.reply, rq) /\ UNCHANGED <<admins, auditLog>>
        ELSE IF Get(body, "role") \notin Roles \cup {Undef}
             THEN /\ Answer(s, FirstReply(mw.reply, Reply(400, "Invalid role.")), rq)
                  /\ UNCHANGED <<admins, auditLog>>
        ELSE IF id \notin DOMAIN admins
             THEN /\ Answer(s, FirstReply(mw.reply, Reply(404, "Admin not found.")), rq)
                  /\ UNCHANGED <<admins, auditLog>>
        ELSE /\ admins' = after
             /\ auditLog' = logAction(auditLog, leads, cred.id, "update_admin", "Admin",
                                      [adminId |-> id, updateFields |-> Plain(updateFields)],
                                      stored)
             /\ Answer(s, FirstReply(mw.reply,
                         ReplyData(200, "Admin updated.",
                                   [id |-> id, username |-> after[id].username,
                                    role |-> after[id].role, active |-> after[id].active,
                                    location |-> after[id].location,
                                    color |-> after[id].color])),
                       Merge(rq, [updateFields |-> updateFields]))
  /\ UNCHANGED <<leads, settings, rolePerms, unused, activityLog, loginHistory, tokens, boot>>

\* ---------------------------------------------- DELETE /api/admins/:id
\* A handler that deletes whichever admin the path names.
DeleteAdmin_NoSelfCheck(s, cred, id, stored) ==
  /\ CanBegin(s)
  /\ LET mw == Gated(AdminRoles, cred)
         rq == Request("delete_admin", cred, id)
     IN IF ~mw.next THEN Answer(s, mw.reply, rq) /\ UNCHANGED <<admins, auditLog>>
        ELSE IF id \notin DOMAIN admins
             THEN /\ Answer(s, FirstReply(mw.reply, Reply(404, "Admin not found.")), rq)
                  /\ UNCHANGED <<admins, auditLog>>
        ELSE /\ admins' = FindByIdAndDelete(admins, id)
             /\ auditLog' = logAction(auditLog, leads, cred.id, "delete_admin", "Admin",
                                      [adminId |-> id, username |-> admins[id].username,
                                       email |-> admins[id].email, role |-> admins[id].role,
                                       location |-> admins[id].location],
                                      stored)
             /\ Answer(s, FirstReply(mw.reply, Reply(200, "Admin deleted.")), rq)
  /\ UNCHANGED <<leads, settings, rolePerms, unused, activityLog, loginHistory, tokens, boot>>

DeleteAdmin(s, cred, id, stored) ==
  /\ CanBegin(s)
  /\ LET mw == Gated(AdminRoles, cred)
         rq == Request("delete_admin", cred, id)
     IN IF ~mw.next THEN Answer(s, mw.reply, rq) /\ UNCHANGED <<admins, auditLog>>
        ELSE IF cred.id = id
             THEN /\ Answer(s, FirstReply(mw.reply, Reply(400, "You cannot delete yourself.")),
                            rq)
                  /\ UNCHANGED <<admins, auditLog>>
        ELSE IF id \notin DOMAIN admins
             THEN /\ Answer(s, FirstReply(mw.reply, Reply(404, "Admin not found.")), rq)
                  /\ UNCHANGED <<admins, auditLog>>
        ELSE /\ admins' = FindByIdAndDelete(admins, id)
             /\ auditLog' = logAction(auditLog, leads, cred.id, "delete_admin", "Admin",
                                      [adminId |-> id, username |-> admins[id].username,
                                       email |-> admins[id].email, role |-> admins[id].role,
                                       location |-> admins[id].location],
                                      stored)
             /\ Answer(s, FirstReply(mw.reply, Reply(200, "Admin deleted.")), rq)
  /\ UNCHANGED <<leads, settings, rolePerms, unused, activityLog, loginHistory, tokens, boot>>

\* ---------------------------------------------- GET /api/audit-logs
AuditLogRoles == {"SuperAdmin", "Admin"}

\* The filter an Admin caller gets: metadata.role absent or not SuperAdmin.
VisibleTo(role, entry) ==
  role # "Admin" \/ Get(entry.metadata, "role") # "SuperAdmin"

GetAuditLogs(s, cred) ==
  /\ CanBegin(s)
  /\ LET mw == Gated(AuditLogRoles, cred)
         rq == Request("audit_logs", cred, Null)
         Visible(e) == VisibleTo(cred.role, e)
     IN IF ~mw.next THEN Answer(s, mw.reply, rq)
        ELSE Answer(s, FirstReply(mw.reply,
                       ReplyData(200, "", [logs |-> SelectSeq(auditLog, Visible)])), rq)
  /\ UNCHANGED <<docs, logs, tokens, boot>>

\* ---------------------------------------------- GET /api/current-admin
\* .select('-password')
WithoutPassword(doc) == [k \in DOMAIN doc \ {"password"} |-> doc[k]]

GetCurrentAdmin(s, cred) ==
  /\ CanBegin(s)
  /\ LET mw == authMiddleware(cred)
         rq == Request("current_admin", cred, Null)
     IN IF ~mw.next THEN Answer(s, mw.reply, rq)
        ELSE IF cred.id \notin DOMAIN admins
             THEN Answer(s, Reply(404, "Admin not found."), rq)
        ELSE Answer(s, ReplyData(200, "", WithoutPassword(admins[cred.id])), rq)
  /\ UNCHANGED <<docs, logs, tokens, boot>>

\* ---------------------------------------------- POST /api/users
PostUserRoles == {"SuperAdmin", "Admin", "EditMode"}

\* User.findOne({$or: [{email}, {contact}]})
ExistingUser(email, contact) ==
  {l \in DOMAIN leads : leads[l].email = email \/ leads[l].contact = contact}

\* new User(body): the schema defaults fill what the body leaves out.
NewLeadDoc(body) ==
  Merge([name |-> Undef, email |-> Undef, contact |-> Undef, countryCode |-> Undef,
         coursename |-> Undef, location |-> Undef, status |-> "New", notes |-> "",
         assignedTo |-> Null, contactedScore |-> Undef, contactedComment |-> Undef],
        PickFields(body, LeadFields))

\* The duplicate check replying 409 without return: the handler goes on to create.
PostUserCheck_NoReturn(cred, body) ==
  LET mw == Gated(PostUserRoles, cred) IN
  IF ~mw.next THEN mw
  ELSE IF Get(body, "name") = Undef \/ Get(body, "email") = Undef
            \/ Get(body, "contact") = Undef
       THEN [mw EXCEPT !.reply = FirstReply(mw.reply,
                                   Reply(400, "Name, email, and contact are required.")),
                       !.next = FALSE]
  ELSE IF ExistingUser(body.email, body.contact) # {}
       THEN [mw EXCEPT !.reply = FirstReply(mw.reply,
                            Reply(409, "User with this email or contact already exists."))]
  ELSE mw

PostUserCheck(cred, body) ==
  LET mw == Gated(PostUserRoles, cred) IN
  IF ~mw.next THEN mw
  ELSE IF Get(body, "name") = Undef \/ Get(body, "email") = Undef
            \/ Get(body, "contact") = Undef
       THEN [mw EXCEPT !.reply = FirstReply(mw.reply,
                                   Reply(400, "Name, email, and contact are required.")),
                       !.next = FALSE]
  ELSE IF ExistingUser(body.email, body.contact) # {}
       THEN [mw EXCEPT !.reply = FirstReply(mw.reply,
                            Reply(409, "User with this email or contact already exists.")),
                       !.next = FALSE]
  ELSE mw

PostUserBegin(s, cred, body) ==
  /\ CanBegin(s)
  /\ LET chk == PostUserCheck(cred, body) IN
     IF ~chk.next THEN Answer(s, chk.reply, Request("create_user", cred, Null))
     ELSE Suspend(s, chk.reply, Request("create_user", cred, Null), [body |-> body])
  /\ UNCHANGED <<docs, logs, tokens, boot>>

PostUserFinish(s, stored) ==
  /\ req[s].pc = "write" /\ req[s].op = "create_user"
  /\ HasNewId(LeadIds)
  /\ LET r == req[s]
         id == NewId(LeadIds)
         after == Insert(leads, id, NewLeadDoc(r.body))
     IN /\ leads' = after
        /\ unused' = unused \ {id}
        /\ auditLog' = logAction(auditLog, after, r.admin.id, "create_user", "User",
                                 [userId |-> id], stored)
        /\ resp' = [resp EXCEPT ![s] =
                      FirstReply(resp[s], [ReplyData(201, "User created.", after[id])
                                             EXCEPT !.n = r.n])]
        /\ req' = [req EXCEPT ![s].pc = "done", ![s].id = id]
        /\ nreq' = nreq
  /\ UNCHANGED <<admins, settings, rolePerms, activityLog, loginHistory, tokens, boot>>

\* ---------------------------------------------- POST /api/submit (public)
\* The handler trims the fields and lower-cases the e-mail; the inputs of the
\* model are already in that form.
SubmitCheck(body) ==
  LET dup == ExistingUser(Get(body, "email"), Get(body, "contact")) IN
  IF Get(body, "name") = Undef \/ Get(body, "email") = Undef \/ Get(body, "contact") = Undef
  THEN MwReply(Reply(400, "Please fill in Name, Email, and Contact Number."))
  ELSE IF dup # {}
  THEN MwReply(Reply(400,
         IF \E l \in dup : leads[l].email = body.email
         THEN "This email address is already registered. Please use a different email."
         ELSE "This contact number is already registered. Please use a different number."))
  ELSE MwNext

SubmitBegin(s, body) ==
  /\ CanBegin(s)
  /\ LET chk == SubmitCheck(body) IN
     IF ~chk.next THEN Answer(s, chk.reply, Request("submit", NoToken, Null))
     ELSE Suspend(s, chk.reply, Request("submit", NoToken, Null), [body |-> body])
  /\ UNCHANGED <<docs, logs, tokens, boot>>

SubmitFinish(s) ==
  /\ req[s].pc = "write" /\ req[s].op = "submit"
  /\ HasNewId(LeadIds)
  /\ LET r == req[s]
         id == NewId(LeadIds)
         doc == Merge(NewLeadDoc(r.body), [coursename |-> "N/A", location |-> "N/A"])
     IN /\ leads' = Insert(leads, id, doc)
        /\ unused' = unused \ {id}
        /\ resp' = [resp EXCEPT ![s] =
                      FirstReply(resp[s],
                                 [Reply(201, "Registration successful! We will contact you soon.")
                                    EXCEPT !.n = r.n])]
        /\ req' = [req EXCEPT ![s].pc = "done", ![s].id = id]
        /\ nreq' = nreq
  /\ UNCHANGED <<admins, settings, rolePerms, logs, tokens, boot>>

\* ---------------------------------------------- PUT /api/settings/:key
SettingsRoles == {"SuperAdmin"}

PutSetting(s, cred, key, body, stored) ==
  /\ CanBegin(s)
  /\ LET mw == Gated(SettingsRoles, cred)
         rq == Request("update_setting", cred, key)
     IN IF ~mw.next THEN Answer(s, mw.reply, rq) /\ UNCHANGED <<settings, auditLog>>
        ELSE IF "value" \notin DOMAIN body
             THEN /\ Answer(s, FirstReply(mw.reply, Reply(400, "Setting value is required.")),
                            rq)
                  /\ UNCHANGED <<settings, auditLog>>
        ELSE /\ settings' = Merge(settings, [k \in {key} |-> body.value])
             /\ auditLog' = logAction(auditLog, leads, cred.id, "update_setting", "Settings",
                                      [key |-> key, value |-> body.value], stored)
             /\ Answer(s, FirstReply(mw.reply,
                            ReplyData(200, "Setting updated successfully.",
                                      [key |-> key, value |-> body.value])), rq)
  /\ UNCHANGED <<admins, leads, rolePerms, unused, activityLog, loginHistory, tokens, boot>>

\* ---------------------------------------------- PUT /api/role-permissions/:role
RolePermissionRoles == {"SuperAdmin"}
\* The role list of the handler with "SuperAdmin" added to it.
EditableRoles_All == Roles

EditableRoles == {"Admin", "ViewMode", "EditMode"}

PutRolePermissions(s, cred, role, body, stored) ==
  /\ CanBegin(s)
  /\ LET mw == Gated(RolePermissionRoles, cred)
         rq == Request("update_role_permissions", cred, role)
     IN IF ~mw.next THEN Answer(s, mw.reply, rq) /\ UNCHANGED <<rolePerms, auditLog>>
        ELSE IF "permissions" \notin DOMAIN body
             THEN /\ Answer(s, FirstReply(mw.reply, Reply(400, "Permissions are required.")),
                            rq)
                  /\ UNCHANGED <<rolePerms, auditLog>>
        ELSE IF role \notin EditableRoles
             THEN /\ Answer(s, FirstReply(mw.reply,
                                 Reply(400, "Cannot modify SuperAdmin permissions.")), rq)
                  /\ UNCHANGED <<rolePerms, auditLog>>
        ELSE IF role \notin RolesOf(rolePerms)
             THEN /\ Answer(s, FirstReply(mw.reply, Reply(404, "Role not found.")), rq)
                  /\ UNCHANGED <<rolePerms, auditLog>>
        ELSE /\ rolePerms' = [rolePerms EXCEPT
                              ![FindGrant(rolePerms, role)].permissions = body.permissions]
             /\ auditLog' = logAction(auditLog, leads, cred.id, "update_role_permissions",
                                      "RolePermission",
                                      [role |-> role, permissions |-> body.permissions],
                                      stored)
             /\ Answer(s, FirstReply(mw.reply,
                            ReplyData(200, "Role permissions updated.", body.permissions)),
                       rq)
  /\ UNCHANGED <<admins, leads, settings, unused, activityLog, loginHistory, tokens, boot>>

\* ---------------------------------------------- PUT /api/leads/bulk-update
BulkUpdateRoles == {"SuperAdmin", "Admin", "EditMode"}
BulkUpdateFields == {"status", "notes", "assignedTo", "contactedScore", "contactedComment"}

\* The ids of a leadIds list.
Range(list) == {list[i] : i \in DOMAIN list}

\* User.find({_id: {$in: leadIds}}) mapped to {id, name, email, contact}
LeadsInfo(coll, leadIds) ==
  {[id |-> i, name |-> coll[i].name, email |-> coll[i].email, contact |-> coll[i].contact] :
     i \in Range(leadIds) \cap DOMAIN coll}

\* The replies before the store is read: middleware, leadIds, updateData.
BulkUpdateCheck(cred, body) ==
  LET mw == Gated(BulkUpdateRoles, cred) IN
  IF ~mw.next THEN mw
  ELSE IF Len(body.leadIds) = 0
       THEN [mw EXCEPT !.reply = FirstReply(mw.reply, Reply(400, "No lead IDs provided.")),
                       !.next = FALSE]
  ELSE IF DOMAIN body.updateData = {}
       THEN [mw EXCEPT !.reply = FirstReply(mw.reply, Reply(400, "No update data provided.")),
                       !.next = FALSE]
  ELSE mw

\* Up to "const originalLeads = await User.find(...)".
BulkUpdateBegin(s, cred, body) ==
  /\ CanBegin(s)
  /\ LET chk == BulkUpdateCheck(cred, body)
         rq == Request("bulk_update_leads", cred, "bulk-update")
     IN IF ~chk.next THEN Answer(s, chk.reply, rq)
        ELSE Suspend(s, chk.reply, rq,
                     [leadIds |-> body.leadIds,
                      updateFields |-> PickFields(body.updateData, BulkUpdateFields),
                      leadsInfo |-> LeadsInfo(leads, body.leadIds)])
  /\ UNCHANGED <<docs, logs, tokens, boot>>

\* User.updateMany({_id: {$in: leadIds}}, {$set: updateFields}): modifiedCount
\* counts the matched leads whose stored value differs; then logAction.
BulkUpdateFinish(s, stored) ==
  /\ req[s].pc = "write" /\ req[s].op = "bulk_update_leads"
  /\ LET r == req[s]
         matched == Range(r.leadIds) \cap DOMAIN leads
         modified == {i \in matched :
                        \E k \in DOMAIN r.updateFields : leads[i][k] # r.updateFields[k]}
         after == [i \in DOMAIN leads |->
                     IF i \in matched THEN Merge(leads[i], r.updateFields) ELSE leads[i]]
         modifiedCount == Cardinality(modified)
     IN /\ leads' = after
        /\ auditLog' = logAction(auditLog, after, r.admin.id, "bulk_update_leads", "User",
                                 [count |-> modifiedCount,
                                  updateFields |-> Plain(r.updateFields),
                                  affectedLeads |-> r.leadsInfo],
                                 stored)
        /\ Finish(s, ReplyData(200, "Updated leads.", [modifiedCount |-> modifiedCount]))
  /\ UNCHANGED <<admins, settings, rolePerms, unused, activityLog, loginHistory, tokens, boot>>

\* ---------------------------------------------- DELETE /api/leads/bulk-delete
BulkDeleteRoles == {"SuperAdmin", "Admin"}

\* User.find({_id: {$in: leadIds}}) mapped to {id, name, email, contact, status}
DeletedLeadsInfo(coll, leadIds) ==
  {[id |-> i, name |-> coll[i].name, email |-> coll[i].email, contact |-> coll[i].contact,
    status |-> coll[i].status] : i \in Range(leadIds) \cap DOMAIN coll}

BulkDeleteCheck(cred, body) ==
  LET mw == Gated(BulkDeleteRoles, cred) IN
  IF ~mw.next THEN mw
  ELSE IF Len(body.leadIds) = 0
       THEN [mw EXCEPT !.reply = FirstReply(mw.reply, Reply(400, "No lead IDs provided.")),
                       !.next = FALSE]
  ELSE mw

\* Up to "const leadsToDelete = await User.find(...)".
BulkDeleteBegin(s, cred, body) ==
  /\ CanBegin(s)
  /\ LET chk == BulkDeleteCheck(cred, body)
         rq == Request("bulk_delete_leads", cred, "bulk-delete")
     IN IF ~chk.next THEN Answer(s, chk.reply, rq)
        ELSE Suspend(s, chk.reply, rq,
                     [leadIds |-> body.leadIds,
                      leadsInfo |-> DeletedLeadsInfo(leads, body.leadIds)])
  /\ UNCHANGED <<docs, logs, tokens, boot>>

\* User.deleteMany({_id: {$in: leadIds}}): deletedCount counts the leads
\* that are still stored; then logAction.
BulkDeleteFinish(s, stored) ==
  /\ req[s].pc = "write" /\ req[s].op = "bulk_delete_leads"
  /\ LET r == req[s]
         deleted == Range(r.leadIds) \cap DOMAIN leads
         after == [i \in DOMAIN leads \ deleted |-> leads[i]]
         deletedCount == Cardinality(deleted)
     IN /\ leads' = after
        /\ auditLog' = logAction(auditLog, after, r.admin.id, "bulk_delete_leads", "User",
                                 [count |-> deletedCount,
                                  leadIds |-> r.leadIds,
                                  deletedLeads |-> r.leadsInfo],
                                 stored)
        /\ Finish(s, ReplyData(200, "Deleted leads.", [deletedCount |-> deletedCount]))
  /\ UNCHANGED <<admins, settings, rolePerms, unused, activityLog, loginHistory, tokens, boot>>

\* ------------------------------------------------------------ request inputs
\* The bodies {leadIds, updateData} of the bulk requests; "l2" may not exist.
LeadIdLists == {<< >>, <<"l1">>, <<"l1", "l2">>}
BulkUpdateBodies ==
  {[leadIds |-> ids, updateData |-> data] :
     ids \in LeadIdLists,
     data \in {[status |-> "Contacted"], [status |-> "New"],
               [status |-> "Contacted", name |-> "n2"], EmptyObj}}
BulkDeleteBodies == {[leadIds |-> ids] : ids \in LeadIdLists}

\* "bulk-update" and "bulk-delete": PUT /api/leads/bulk-update and
\* DELETE /api/leads/bulk-delete match the routes /api/leads/:id registered first.
LeadIdParams == LeadIds \cup {"bulk-update", "bulk-delete"}

UpdateBodies ==
  { [status |-> "Contacted"],
    [name |-> "n2", email |-> "e2"],
    [assignedTo |-> "a2"],
    [status |-> "Converted", notes |-> "called"] }

LeadBodies ==
  { [name |-> "n2", email |-> "e2", contact |-> "c2"],
    [name |-> "n2", email |-> "e1", contact |-> "c2"],
    [name |-> "n2", email |-> "e2"] }

Identifiers == {"root", "ed", "ED@X.IO", "ghost", Missing}

AdminBodies ==
  { [username |-> "new", password |-> "pw1", role |-> "EditMode"],
    [username |-> "ed", password |-> "pw1", role |-> "Admin"],
    [username |-> "new", password |-> "pw1", role |-> "Owner"],
    [username |-> "new", role |-> "Admin"] }

AdminUpdateBodies ==
  { [role |-> "ViewMode"], [active |-> FALSE], [password |-> "pw1"], [role |-> "Owner"] }

SettingBodies == {[value |-> TRUE], [value |-> FALSE], EmptyObj}

PermissionBodies ==
  {[permissions |-> DefaultGrant("ViewMode")], [permissions |-> DefaultGrant("SuperAdmin")],
   EmptyObj}

\* ------------------------------------------------------------ the requests
\* The outcomes of a log write: the store may fail it, or is taken as reliable.
StoreMayFail == BOOLEAN
StoreReliable == {TRUE}

LeadUpdates(s, Outcomes) ==
  \/ \E cred \in Credentials, id \in LeadIdParams, body \in UpdateBodies :
       PutLeadBegin(s, cred, id, body)
  \/ \E stored \in Outcomes : PutLeadFinish(s, stored)
  \/ \E cred \in Credentials, id \in LeadIdParams, body \in UpdateBodies :
       PatchLeadBegin(s, cred, id, body)
  \/ \E stored \in Outcomes : PatchLeadFinish(s, stored)
  \/ \E cred \in Credentials, id \in LeadIds, body \in UpdateBodies, stored \in Outcomes :
       PutUser(s, cred, id, body, stored)

LeadDeletes(s, Outcomes) ==
  \/ \E cred \in Credentials, id \in LeadIdParams : DeleteLeadBegin(s, cred, id)
  \/ \E stored \in Outcomes : DeleteLeadFinish(s, stored)
  \/ \E cred \in Credentials, id \in LeadIds, stored \in Outcomes :
       DeleteUser(s, cred, id, stored)

LeadCreates(s, Outcomes) ==
  \/ \E cred \in Credentials, body \in LeadBodies : PostUserBegin(s, cred, body)
  \/ \E stored \in Outcomes : PostUserFinish(s, stored)
  \/ \E body \in LeadBodies : SubmitBegin(s, body)
  \/ SubmitFinish(s)

Logins(s, Outcomes) ==
  \/ \E username \in Identifiers, password \in Passwords \cup {Missing},
        stored \in Outcomes, audited \in Outcomes :
       Login(s, username, password, stored, audited)
  \/ \E cred \in Credentials, action \in {"page_view", Undef}, stored \in Outcomes :
       PostActivity(s, cred, action, stored)

AdminChanges(s, Outcomes) ==
  \/ \E cred \in Credentials, body \in AdminBodies, stored \in Outcomes :
       PostAdmin(s, cred, body, stored)
  \/ \E cred \in Credentials, id \in AdminIds, body \in AdminUpdateBodies, stored \in Outcomes :
       PutAdmin(s, cred, id, body, stored)
  \/ \E cred \in Credentials, id \in AdminIds, stored \in Outcomes :
       DeleteAdmin(s, cred, id, stored)

AdminReads(s) ==
  \/ \E cred \in Credentials : GetAuditLogs(s, cred)
  \/ \E cred \in Credentials : GetCurrentAdmin(s, cred)

PolicyChanges(s, Outcomes) ==
  \/ \E cred \in Credentials, body \in SettingBodies, stored \in Outcomes :
       PutSetting(s, cred, "restrictLeadEditing", body, stored)
  \/ \E cred \in Credentials, role \in Roles, body \in PermissionBodies, stored \in Outcomes :
       PutRolePermissions(s, cred, role, body, stored)

\* One request at a time: changes of the settings and of the role grants.
NextPolicy == Within("r1", MaxReqs) /\ PolicyChanges("r1", StoreMayFail)
SpecPolicy == InitServing /\ [][NextPolicy]_vars

\* One request at a time: grant and setting changes and gated lead deletions.
NextGrants ==
  \/ Within("r1", MaxReqs) /\ PolicyChanges("r1", StoreReliable)
  \/ Within("r1", MaxReqs) /\ LeadDeletes("r1", StoreReliable)
SpecGrants == InitServing /\ [][NextGrants]_vars

\* One request at a time: admin accounts changed, logins, and requests made
\* with tokens issued before the change.
NextSessions ==
  \/ Within("r1", MaxReqs) /\ AdminChanges("r1", StoreReliable)
  \/ Within("r1", MaxReqs) /\ AdminReads("r1")
  \/ Within("r1", MaxReqs) /\ Logins("r1", StoreReliable)
SpecSessions == InitServing /\ [][NextSessions]_vars

\* The bulk handlers as they are written, entered directly, with a lead
\* creation or a single delete running in a second slot between their awaits.
\* (Express hands PUT /api/leads/bulk-update and DELETE /api/leads/bulk-delete
\* to the /api/leads/:id routes registered first: LeadIdParams.)
BulkRequests(s, Outcomes) ==
  \/ \E cred \in Credentials, body \in BulkUpdateBodies : BulkUpdateBegin(s, cred, body)
  \/ \E stored \in Outcomes : BulkUpdateFinish(s, stored)
  \/ \E cred \in Credentials, body \in BulkDeleteBodies : BulkDeleteBegin(s, cred, body)
  \/ \E stored \in Outcomes : BulkDeleteFinish(s, stored)

\* One request at a time: lead updates, deletes and creations.
NextLeads ==
  \/ Within("r1", MaxReqs) /\ LeadUpdates("r1", StoreMayFail)
  \/ Within("r1", MaxReqs) /\ LeadDeletes("r1", StoreMayFail)
  \/ Within("r1", MaxReqs) /\ LeadCreates("r1", StoreMayFail)
SpecLeads == InitServing /\ [][NextLeads]_vars

\* The same, with a store that fails no write.
NextLeadsReliable ==
  \/ Within("r1", MaxReqs) /\ LeadUpdates("r1", StoreReliable)
  \/ Within("r1", MaxReqs) /\ LeadDeletes("r1", StoreReliable)
  \/ Within("r1", MaxReqs) /\ LeadCreates("r1", StoreReliable)
SpecLeadsReliable == InitServing /\ [][NextLeadsReliable]_vars

\* One request at a time: logins and activity tracking.
NextLogin == Within("r1", MaxReqs) /\ Logins("r1", StoreMayFail)
SpecLogin == InitServing /\ [][NextLogin]_vars

\* The same, with a store that fails no write.
NextLoginReliable == Within("r1", MaxReqs) /\ Logins("r1", StoreReliable)
SpecLoginReliable == InitServing /\ [][NextLoginReliable]_vars

\* One request at a time: admin accounts and the listings that show them.
NextAdmins ==
  \/ Within("r1", MaxReqs) /\ AdminChanges("r1", StoreMayFail)
  \/ Within("r1", MaxReqs) /\ AdminReads("r1")
SpecAdmins == InitServing /\ [][NextAdmins]_vars

\* The start-up of the process, and gated requests as soon as it serves them.
NextBoot ==
  \/ Listen
  \/ Connected
  \/ ConnectFailed
  \/ SeedCount
  \/ \E stored \in StoreReliable : SeedCreate(stored)
  \/ DefaultsFind
  \/ DefaultsCreate
  \/ /\ Within("r1", MaxReqs)
     /\ \E cred \in Credentials, id \in LeadIds, body \in UpdateBodies :
          PatchLeadBegin("r1", cred, id, body)
  \/ \E stored \in StoreReliable : PatchLeadFinish("r1", stored)
  \/ Within("r1", MaxReqs) /\ PolicyChanges("r1", StoreReliable)
SpecBoot == InitBoot /\ [][NextBoot]_vars

\* The first start of the server and runs of the init-permissions script, in
\* any interleaving of their awaited store calls.
NextSeed ==
  \/ Listen
  \/ Connected
  \/ ConnectFailed
  \/ SeedCount
  \/ \E stored \in StoreReliable : SeedCreate(stored)
  \/ DefaultsFind
  \/ DefaultsCreate
  \/ ScriptStart
  \/ ScriptCount
  \/ \E stored \in StoreReliable : ScriptCreate(stored)
SpecSeed == InitSeed /\ [][NextSeed]_vars

\* One request at a time, every handler that writes a document behind a gate.
GatedCreates(s, Outcomes) ==
  \/ \E cred \in Credentials, body \in LeadBodies : PostUserBegin(s, cred, body)
  \/ \E stored \in Outcomes : PostUserFinish(s, stored)

\* Two updates of a lead at once: PUT /api/leads/:id in one slot and
\* PATCH /api/leads/:id in the other, their reads and writes interleaved.
NextUpdateRace ==
  \/ /\ Within("r1", MaxReqs)
     /\ \E cred \in tokens, id \in LeadIds, body \in UpdateBodies :
          PutLeadBegin("r1", cred, id, body)
  \/ \E stored \in StoreReliable : PutLeadFinish("r1", stored)
  \/ /\ Within("r2", MaxReqs)
     /\ \E cred \in tokens, id \in LeadIds, body \in UpdateBodies :
          PatchLeadBegin("r2", cred, id, body)
  \/ \E stored \in StoreReliable : PatchLeadFinish("r2", stored)
SpecUpdateRace == InitServing /\ [][NextUpdateRace]_vars

\* Bulk requests in one slot, single deletes and creations in the other.
NextBulk ==
  \/ Within("r1", MaxReqs) /\ BulkRequests("r1", StoreReliable)
  \/ /\ Within("r2", MaxReqs)
     /\ \E cred \in tokens, id \in LeadIds, stored \in StoreReliable :
          DeleteUser("r2", cred, id, stored)
  \/ Within("r2", MaxReqs) /\ GatedCreates("r2", StoreReliable)
SpecBulk == InitServing /\ [][NextBulk]_vars

\* One request at a time, every handler that creates or updates a document.
NextWrites ==
  \/ Within("r1", MaxGateReqs) /\ LeadCreates("r1", StoreReliable)
  \/ Within("r1", MaxGateReqs) /\ LeadUpdates("r1", StoreReliable)
  \/ Within("r1", MaxGateReqs) /\ BulkRequests("r1", StoreReliable)
  \/ Within("r1", MaxGateReqs) /\ AdminChanges("r1", StoreReliable)
  \/ Within("r1", MaxGateReqs) /\ PolicyChanges("r1", StoreReliable)
SpecWrites == InitServing /\ [][NextWrites]_vars

\* Requests one after the other, none taken up while another is suspended:
\* PATCH /api/leads/:id in the first and the third slot, PUT /api/leads/:id
\* in the second.
Quiet == \A s \in Slots : req[s].pc # "write"

\* req.body: the status change and the assignment of the scenario, and a
\* change of name and email.
ScenarioBodies ==
  {[status |-> "Contacted"], [assignedTo |-> "a2"], [name |-> "n2", email |-> "e2"]}

NextScenario ==
  \/ /\ Quiet
     /\ \E cred \in tokens, id \in LeadIds, body \in ScenarioBodies :
          PatchLeadBegin("r1", cred, id, body)
  \/ \E stored \in StoreReliable : PatchLeadFinish("r1", stored)
  \/ /\ Quiet
     /\ \E cred \in tokens, id \in LeadIds, body \in ScenarioBodies :
          PutLeadBegin("r2", cred, id, body)
  \/ \E stored \in StoreReliable : PutLeadFinish("r2", stored)
  \/ /\ Quiet
     /\ \E cred \in tokens, id \in LeadIds, body \in ScenarioBodies :
          PatchLeadBegin("r3", cred, id, body)
  \/ \E stored \in StoreReliable : PatchLeadFinish("r3", stored)
SpecScenario == InitScenario /\ [][NextScenario]_vars

\* A PATCH of a lead in one slot and, between its awaits, a PUT in the other
\* slot that hands the lead to somebody else or to nobody.
ReassignBodies == {[assignedTo |-> "a1"], [assignedTo |-> Null]}

NextReassign ==
  \/ /\ Within("r1", MaxReqs)
     /\ \E cred \in tokens, id \in LeadIds, body \in UpdateBodies :
          PatchLeadBegin("r1", cred, id, body)
  \/ \E stored \in StoreReliable : PatchLeadFinish("r1", stored)
  \/ /\ Within("r2", MaxReqs)
     /\ \E cred \in tokens, id \in LeadIds, body \in ReassignBodies :
          PutLeadBegin("r2", cred, id, body)
  \/ \E stored \in StoreReliable : PutLeadFinish("r2", stored)
SpecReassign == InitServing /\ [][NextReassign]_vars

\* Two creations of a lead at once, through POST /api/submit or
\* POST /api/users, their duplicate lookups and saves interleaved.
NextCreateRace ==
  \/ Within("r1", MaxReqs) /\ LeadCreates("r1", StoreReliable)
  \/ Within("r2", MaxReqs) /\ LeadCreates("r2", StoreReliable)
SpecCreateRace == InitNoLeads /\ [][NextCreateRace]_vars

\* A DELETE of a lead in one slot and, between its awaits, a DELETE or a
\* PATCH of a lead in the other.
NextDeleteRace ==
  \/ /\ Within("r1", MaxReqs)
     /\ \E cred \in tokens, id \in LeadIds : DeleteLeadBegin("r1", cred, id)
  \/ \E stored \in StoreReliable : DeleteLeadFinish("r1", stored)
  \/ /\ Within("r2", MaxReqs)
     /\ \E cred \in tokens, id \in LeadIds : DeleteLeadBegin("r2", cred, id)
  \/ \E stored \in StoreReliable : DeleteLeadFinish("r2", stored)
  \/ /\ Within("r2", MaxReqs)
     /\ \E cred \in tokens, id \in LeadIds, body \in UpdateBodies :
          PatchLeadBegin("r2", cred, id, body)
  \/ \E stored \in StoreReliable : PatchLeadFinish("r2", stored)
SpecDeleteRace == InitServing /\ [][NextDeleteRace]_vars

\* One request at a time, every route that writes to the lead collection.
NextLeadRoutes ==
  \/ Within("r1", MaxGateReqs) /\ LeadUpdates("r1", StoreReliable)
  \/ Within("r1", MaxGateReqs) /\ LeadDeletes("r1", StoreReliable)
  \/ Within("r1", MaxGateReqs) /\ LeadCreates("r1", StoreReliable)
  \/ Within("r1", MaxGateReqs) /\ BulkRequests("r1", StoreReliable)
SpecLeadRoutes == InitServing /\ [][NextLeadRoutes]_vars

NextGates ==
  \/ Within("r1", MaxGateReqs) /\ LeadUpdates("r1", StoreMayFail)
  \/ Within("r1", MaxGateReqs) /\ LeadDeletes("r1", StoreMayFail)
  \/ Within("r1", MaxGateReqs) /\ GatedCreates("r1", StoreMayFail)
  \/ Within("r1", MaxGateReqs) /\ AdminChanges("r1", StoreMayFail)
  \/ Within("r1", MaxGateReqs) /\ PolicyChanges("r1", StoreMayFail)
SpecGates == InitServing /\ [][NextGates]_vars

\* ------------------------------------------------------------------ claims
LeadMutations == {"put_lead", "patch_lead", "put_user"}
Unprivileged == {"ViewMode", "EditMode"}

\* The step completes the request of slot s.
Completes(s) == req'[s].pc = "done" /\ req'[s] # req[s]

\* C1: under restriction mode, on every lead-mutating endpoint, a ViewMode or
\* EditMode actor is denied (403, lead unchanged) on a lead not assigned to
\* the actor, is not refused by the restriction on a lead assigned to the
\* actor, and a SuperAdmin or Admin is never refused by the restriction.
C1_RestrictionOnEveryEndpoint ==
  [][\A s \in Slots :
       (/\ Completes(s)
        /\ req'[s].op \in LeadMutations
        /\ req'[s].admin \in tokens
        /\ req'[s].id \in DOMAIN leads
        /\ restrictLeadEditing)
       => /\ (req'[s].admin.role \in Unprivileged
                /\ leads[req'[s].id].assignedTo # req'[s].admin.id)
               => (resp'[s].status = 403 /\ leads' = leads)
          /\ (req'[s].admin.role \in Unprivileged
                /\ leads[req'[s].id].assignedTo = req'[s].admin.id)
               => ~resp'[s].restricted
          /\ req'[s].admin.role \notin Unprivileged => ~resp'[s].restricted]_vars

\* C2: a request that a gate rejects (401 or 403) is answered in the step
\* that accepts it, before its handler has suspended or written anything: the
\* step leaves every lead, admin, setting and permission document and the
\* audit log as they were; and a step that writes a document for a request
\* does so for a verified token and is not answered 401 or 403.
Rejected(r) == r.status \in {401, 403}

C2_RejectedRequestWritesNothing ==
  [][\A s \in Slots :
       /\ (Rejected(resp'[s]) /\ (resp'[s] # resp[s] \/ req'[s] # req[s]))
          => /\ req[s].pc \in {"idle", "done"}
             /\ req'[s].pc = "done"
             /\ docs' = docs
             /\ auditLog' = auditLog
       /\ (docs' # docs /\ req'[s] # req[s])
          => /\ req'[s].admin \in tokens
             /\ ~Rejected(resp'[s])]_vars

\* The restriction gate has rejected the PATCH of an EditMode caller.
C2_Witness ==
  \E s \in Slots :
    /\ req[s].pc = "done" /\ req[s].op = "patch_lead"
    /\ resp[s].status = 403 /\ resp[s].restricted
    /\ req[s].admin.role = "EditMode"

\* C3: a login with an identifier that matches no active account and a login
\* with an active account's username and a wrong password are both answered
\* 401 with the same message.
LoginFailed(r) ==
  /\ r.pc = "done" /\ r.op = "login"
  /\ r.username # Missing /\ r.password # Missing
  /\ LET a == FindActiveAdmin(r.username) IN
       a = Null \/ ~bcryptCompare(r.password, admins[a].password)

C3_LoginUniformity ==
  \A s \in Slots :
    LoginFailed(req[s])
    => resp[s].status = 401 /\ resp[s].message = "Invalid username/email or password."

\* C4: each login attempt that supplies a username and a password appends
\* exactly one LoginHistory entry: (null, false) when no account matched,
\* (id, false) on a wrong password, (id, true) on success.
ExpectedLoginEntry(username, password) ==
  LET a == FindActiveAdmin(username) IN
  IF a = Null THEN LoginEntry(Null, FALSE)
  ELSE LoginEntry(a, bcryptCompare(password, admins[a].password))

C4_OneLoginHistoryEntry ==
  [][\A s \in Slots :
       (/\ Completes(s) /\ req'[s].op = "login"
        /\ req'[s].username # Missing /\ req'[s].password # Missing)
       => loginHistory' = Append(loginHistory,
                                 ExpectedLoginEntry(req'[s].username, req'[s].password))]_vars

\* C5: each successful create, update or delete of a lead or an admin appends
\* exactly one audit entry, and the entry holds the value before the change
\* of every field the change altered (for a delete: the document's identity).
WriteOps == {"put_lead", "patch_lead", "put_user", "delete_lead", "delete_user",
             "create_user", "submit", "create_admin", "update_admin", "delete_admin"}
Succeeded(r) == r.status \in {200, 201}
LastEntry(log) == log[Len(log)]

\* The value the entry records as the one before the change of field k.
RecordedFrom(entry, k) ==
  LET uf == Get(entry.metadata, "updateFields") IN
  IF "updateFields" \in DOMAIN entry.metadata /\ k \in DOMAIN uf
  THEN Get(uf[k], "from") ELSE Undef

RecordedTo(entry, k) ==
  LET uf == Get(entry.metadata, "updateFields") IN
  IF "updateFields" \in DOMAIN entry.metadata /\ k \in DOMAIN uf
  THEN Get(uf[k], "to") ELSE Undef

C5_AuditCompleteness ==
  [][\A s \in Slots :
       (Completes(s) /\ req'[s].op \in WriteOps /\ Succeeded(resp'[s]))
       => /\ Len(auditLog') = Len(auditLog) + 1
          /\ \A id \in DOMAIN leads \cap DOMAIN leads' : \A k \in LeadFields :
               leads'[id][k] # leads[id][k]
               => RecordedFrom(LastEntry(auditLog'), k) = leads[id][k]]_vars

\* C7: the audit entry of a lead update or delete carries the lead's name,
\* e-mail and contact as they were before the operation.
LeadOps == {"put_lead", "patch_lead", "put_user", "delete_lead", "delete_user"}

C7_SnapshotBeforeMutation ==
  [][\A s \in Slots :
       (/\ Completes(s) /\ req'[s].op \in LeadOps /\ Succeeded(resp'[s])
        /\ req'[s].id \in DOMAIN leads
        /\ Len(auditLog') = Len(auditLog) + 1)
       => LET md == LastEntry(auditLog').metadata
              before == leads[req'[s].id]
          IN /\ Get(md, "leadName") = before.name
             /\ Get(md, "leadEmail") = before.email
             /\ Get(md, "leadContact") = before.contact]_vars

\* C8: the audit entry of an update holds, for each field the update
\* changed, {from, to} with the value stored before and the value stored after.
UpdateOps == {"put_lead", "patch_lead", "put_user", "update_admin"}

C8_FromToDelta ==
  [][\A s \in Slots :
       (/\ Completes(s) /\ req'[s].op \in UpdateOps /\ Succeeded(resp'[s])
        /\ Len(auditLog') = Len(auditLog) + 1)
       => /\ \A id \in DOMAIN leads \cap DOMAIN leads' : \A k \in LeadFields :
               leads'[id][k] # leads[id][k]
               => /\ RecordedFrom(LastEntry(auditLog'), k) = leads[id][k]
                  /\ RecordedTo(LastEntry(auditLog'), k) = leads'[id][k]
          /\ \A id \in DOMAIN admins \cap DOMAIN admins' :
               \A k \in {"role", "password", "email"} :
               admins'[id][k] # admins[id][k]
               => /\ RecordedFrom(LastEntry(auditLog'), k) = admins[id][k]
                  /\ RecordedTo(LastEntry(auditLog'), k) = admins'[id][k]]_vars

\* C6: a failed log write does not change the outcome of the operation it
\* accompanies: a login is answered as its credentials deserve (and a
\* successful one gets its token), an activity post of an authenticated
\* caller is answered 200, and a handler that has written a document
\* answers 200 or 201, whether or not the log entry was stored.
C6_LogFailureIsHarmless ==
  [][\A s \in Slots :
       Completes(s)
       => /\ (/\ req'[s].op = "login"
              /\ req'[s].username # Missing /\ req'[s].password # Missing)
             => LET due == LoginAttempt(req'[s].username, req'[s].password).reply IN
                /\ resp'[s].status = due.status
                /\ due.status = 200 => resp'[s].data.token \in tokens'
          /\ (req'[s].op = "activity" /\ req'[s].admin \in tokens)
             => resp'[s].status = 200
          /\ (req'[s].op \in WriteOps /\ docs' # docs) => Succeeded(resp'[s])]_vars

\* C9: no reply and no log entry holds a password or a password hash.
Secrets == Passwords \cup {bcryptHash(pw) : pw \in Passwords}

\* The object has a password path that holds a secret, at the top or
\* under updateFields.
HoldsSecret(obj) ==
  \/ "password" \in DOMAIN obj /\ obj.password \in Secrets
  \/ /\ "updateFields" \in DOMAIN obj
     /\ "password" \in DOMAIN obj.updateFields
     /\ Get(obj.updateFields.password, "value") \in Secrets

ReplyHoldsSecret(r) ==
  \/ HoldsSecret(r.data)
  \/ /\ "logs" \in DOMAIN r.data
     /\ \E i \in 1..Len(r.data.logs) : HoldsSecret(r.data.logs[i].metadata)

C9_NoPasswordDisclosure ==
  /\ \A s \in Slots : ~ReplyHoldsSecret(resp[s])
  /\ \A i \in 1..Len(auditLog) : ~HoldsSecret(auditLog[i].metadata)
  /\ \A i \in 1..Len(activityLog) : ~HoldsSecret(activityLog[i])
  /\ \A i \in 1..Len(loginHistory) : ~HoldsSecret(loginHistory[i])

\* C10: the server takes up an authenticated request for a policy-gated
\* endpoint only when all four role grants are stored, never while the
\* start-up seeding is still filling the grant table.
C10_SeededBeforeServing ==
  [][\A s \in Slots :
       (req'[s] # req[s] /\ req[s].pc \in {"idle", "done"} /\ req'[s].admin \in tokens)
         => RolesOf(rolePerms) = Roles]_vars

\* ------------------------------------------------------------ seeding
\* No seeding run is in progress and at least one has run to its end.
SeedingFinished ==
  /\ boot.seed \in {"idle", "done"} /\ boot.script \in {"idle", "done"}
  /\ (boot.seed = "done" \/ boot.script = "done")

RowsOf(role) == {i \in DOMAIN rolePerms : rolePerms[i].role = role}

NoCrud == Crud(FALSE, FALSE, FALSE, FALSE)
AllCrud == Crud(TRUE, TRUE, TRUE, TRUE)
ListedGrant(role) ==
  CASE role = "SuperAdmin" -> Grid(AllCrud, AllCrud, AllCrud, TRUE, TRUE)
    [] role = "Admin" ->
         Grid(AllCrud, AllCrud, Crud(FALSE, TRUE, FALSE, FALSE), TRUE, FALSE)
    [] role = "ViewMode" ->
         Grid(NoCrud, Crud(FALSE, TRUE, FALSE, FALSE), NoCrud, FALSE, FALSE)
    [] role = "EditMode" ->
         Grid(NoCrud, Crud(TRUE, TRUE, TRUE, FALSE), NoCrud, FALSE, FALSE)

\* C12: whichever seeder filled the empty grant table, every row holds the
\* grant listed for its role: SuperAdmin everything, Admin users and leads
\* and read on admins and the analytics view, ViewMode leads.read only,
\* EditMode leads create/read/update only.
C12_SeededGrants ==
  SeedingFinished =>
    \A i \in DOMAIN rolePerms : rolePerms[i].permissions = ListedGrant(rolePerms[i].role)

\* ------------------------------------------------------------ role grants
GrantOf(table, role) == table[FindGrant(table, role)].permissions

\* C13: a step changes the grant table only for PUT /api/role-permissions/:role
\* with a SuperAdmin token and a role other than SuperAdmin; the SuperAdmin
\* grant keeps its seeded value; a call naming SuperAdmin is answered with an
\* error and changes no grant.
C13_GrantsChangedBySuperAdminOnly ==
  [][\A s \in Slots :
       /\ rolePerms' # rolePerms
          => /\ req'[s] # req[s] => /\ req'[s].op = "update_role_permissions"
                                    /\ req'[s].admin \in tokens
                                    /\ req'[s].admin.role = "SuperAdmin"
                                    /\ req'[s].id # "SuperAdmin"
             /\ \E t \in Slots : req'[t] # req[t]
       /\ GrantOf(rolePerms', "SuperAdmin") = DefaultGrant("SuperAdmin")
       /\ (req'[s] # req[s] /\ req'[s].op = "update_role_permissions"
             /\ req'[s].id = "SuperAdmin")
          => /\ resp'[s].status \in {400, 401, 403}
             /\ rolePerms' = rolePerms]_vars

\* A SuperAdmin's call naming SuperAdmin has been rejected after an earlier
\* call changed the Admin grant.
C13_Witness ==
  /\ req["r1"].pc = "done" /\ req["r1"].op = "update_role_permissions"
  /\ req["r1"].id = "SuperAdmin" /\ req["r1"].admin.role = "SuperAdmin"
  /\ resp["r1"].status = 400
  /\ GrantOf(rolePerms, "Admin") # DefaultGrant("Admin")

\* ------------------------------------------------------------ role gate
\* The role list each route is registered with.
Whitelist(op) ==
  CASE op = "put_lead" -> PutLeadRoles
    [] op = "patch_lead" -> PatchLeadRoles
    [] op = "delete_lead" -> DeleteLeadRoles
    [] op = "put_user" -> PutUserRoles
    [] op = "delete_user" -> DeleteUserRoles
    [] op = "create_user" -> PostUserRoles
    [] op \in {"create_admin", "update_admin", "delete_admin"} -> AdminRoles
    [] op = "audit_logs" -> AuditLogRoles
    [] op = "update_setting" -> SettingsRoles
    [] op = "update_role_permissions" -> RolePermissionRoles
    [] OTHER -> Roles \cup {Null}
GatedOps ==
  {"put_lead", "patch_lead", "delete_lead", "put_user", "delete_user", "create_user",
   "create_admin", "update_admin", "delete_admin", "audit_logs", "update_setting",
   "update_role_permissions"}

RoleDenied(r) == r.status = 403 /\ ~r.restricted
\* The step in which slot s takes up a new request.
TakesUp(s) == req'[s] # req[s] /\ req[s].pc \in {"idle", "done"}

\* C14: whatever the grant table holds, a gated request with a verified token
\* is denied by the role gate exactly when the token's role is not in the
\* route's whitelist, and a resumed handler is never denied by the role gate.
C14_GateIgnoresGrants ==
  [][\A s \in Slots :
       /\ (TakesUp(s) /\ req'[s].op \in GatedOps /\ req'[s].admin \in tokens)
          => (RoleDenied(resp'[s]) <=> req'[s].admin.role \notin Whitelist(req'[s].op))
       /\ (req'[s] # req[s] /\ req[s].pc = "write") => ~RoleDenied(resp'[s])]_vars

\* An Admin has deleted a lead after the Admin grant was replaced by the
\* ViewMode grant, which has leads.delete false.
C14_Witness ==
  /\ req["r1"].pc = "done" /\ req["r1"].op \in {"delete_lead", "delete_user"}
  /\ req["r1"].admin.role = "Admin" /\ resp["r1"].status = 200
  /\ ~GrantOf(rolePerms, "Admin").leads.delete

\* ------------------------------------------------------------ sessions
\* The admin a credential was issued to has been deactivated or deleted.
Stale(cred) == cred.id \notin DOMAIN admins \/ ~admins[cred.id].active

\* C15: a request with a token issued before its admin was deactivated or
\* deleted still passes token verification (no 401) and is judged by the role
\* gate on the token's role alone; a login for an identifier with no active
\* account issues no token.
C15_StatelessTokens ==
  [][\A s \in Slots :
       /\ (TakesUp(s) /\ req'[s].op # "login" /\ req'[s].admin \in tokens
             /\ Stale(req'[s].admin))
          => /\ resp'[s].status # 401
             /\ RoleDenied(resp'[s]) <=> req'[s].admin.role \notin Whitelist(req'[s].op)
       /\ (TakesUp(s) /\ req'[s].op = "login" /\ req'[s].username # Missing
             /\ FindActiveAdmin(req'[s].username) = Null)
          => (tokens' = tokens /\ resp'[s].status # 200)]_vars

\* A deactivated or deleted Admin has read the audit log with the old token.
C15_Witness ==
  /\ req["r1"].pc = "done" /\ req["r1"].op = "audit_logs"
  /\ req["r1"].admin \in tokens /\ Stale(req["r1"].admin)
  /\ resp["r1"].status = 200

\* An account with the identifier exists and none of them is active.
InactiveAccount(identifier) ==
  /\ FindActiveAdmin(identifier) = Null
  /\ \E a \in DOMAIN admins :
       ~admins[a].active
         /\ (admins[a].username = identifier \/ admins[a].email = LowerTrim(identifier))

\* C16: a login against an inactive account, with any password, issues no
\* token, leaves every lastLogin as it was, and is answered 401 like any
\* other authentication failure.
C16_InactiveCannotLogin ==
  [][\A s \in Slots :
       (TakesUp(s) /\ req'[s].op = "login" /\ req'[s].username # Missing
          /\ req'[s].password # Missing /\ InactiveAccount(req'[s].username))
       => /\ tokens' = tokens
          /\ admins' = admins
          /\ resp'[s].status = 401]_vars

\* The safety part of C16 alone: no token and no lastLogin update.
C16_NoSessionForInactive ==
  [][\A s \in Slots :
       (TakesUp(s) /\ req'[s].op = "login" /\ req'[s].username # Missing
          /\ req'[s].password # Missing /\ InactiveAccount(req'[s].username))
       => (tokens' = tokens /\ admins' = admins /\ resp'[s].status # 200)]_vars

\* ------------------------------------------------------------ error replies
\* The restriction-mode ownership check of PATCH /api/leads/:id denies the
\* request that slot s takes up.
DeniedByRestriction(s) ==
  /\ req'[s].op = "patch_lead"
  /\ req'[s].id \in DOMAIN leads
  /\ RestrictionDenies(req'[s].admin, Populate(leads[req'[s].id]))

\* C17: a gated request without a verified token is answered 401; with a
\* verified token whose role is outside the route's whitelist it is answered
\* 403; and a 403 carries restricted: true exactly when the role was in the
\* whitelist and the restriction-mode ownership check denied the request.
C17_ErrorReplies ==
  [][\A s \in Slots :
       /\ (TakesUp(s) /\ req'[s].op \in GatedOps)
          => /\ req'[s].admin \notin tokens => resp'[s].status = 401
             /\ (req'[s].admin \in tokens
                   /\ req'[s].admin.role \notin Whitelist(req'[s].op))
                => resp'[s].status = 403
             /\ resp'[s].status = 403
                => (resp'[s].restricted
                      <=> (req'[s].admin.role \in Whitelist(req'[s].op)
                             /\ DeniedByRestriction(s)))
       /\ resp'[s].restricted => resp'[s].status = 403]_vars

\* A whitelisted caller has been denied by the restriction check.
C17_Witness ==
  \E s \in Slots :
    /\ req[s].pc = "done" /\ req[s].op \in GatedOps
    /\ req[s].admin.role \in Whitelist(req[s].op)
    /\ resp[s].status = 403 /\ resp[s].restricted

\* ------------------------------------------------------------ bulk requests
BulkOps == {"bulk_update_leads", "bulk_delete_leads"}

\* Slot s takes up PUT /api/leads/bulk-update or DELETE /api/leads/bulk-delete.
BulkPath(s) ==
  \/ req'[s].id = "bulk-update" /\ req'[s].op \in {"put_lead", "bulk_update_leads"}
  \/ req'[s].id = "bulk-delete" /\ req'[s].op \in {"delete_lead", "bulk_delete_leads"}

\* C18: a request to a bulk path from a role on the bulk route's whitelist is
\* handled by the bulk handler, not answered by the /api/leads/:id route.
C18_BulkServedByBulkHandler ==
  [][\A s \in Slots :
       (TakesUp(s) /\ BulkPath(s) /\ req'[s].admin \in tokens
          /\ req'[s].admin.role \in (IF req'[s].id = "bulk-update" THEN BulkUpdateRoles
                                     ELSE BulkDeleteRoles))
       => /\ req'[s].op \in BulkOps
          /\ resp'[s].message # "Invalid lead ID format."]_vars

\* Slot s resumes a bulk handler and completes it.
BulkCompletes(s, op) == req[s].pc = "write" /\ req[s].op = op /\ req'[s].pc = "done"
InfoIds(info) == {x.id : x \in info}

\* C19: a completed bulk-delete reports a deletedCount of at most the length
\* of its ID list, and its audit entry lists in deletedLeads exactly the leads
\* the request removed from the store.
C19_BulkDeleteLogsActualSubset ==
  [][\A s \in Slots :
       BulkCompletes(s, "bulk_delete_leads")
       => /\ resp'[s].data.deletedCount <= Len(req[s].leadIds)
          /\ Len(auditLog') = Len(auditLog) + 1
          /\ InfoIds(LastEntry(auditLog').metadata.deletedLeads)
               = DOMAIN leads \ DOMAIN leads']_vars

\* C20: the audit entry of a completed bulk request has a count equal to the
\* number of leads it lists and to the count the store reported.
C20_BulkCountMatchesList ==
  [][\A s \in Slots :
       /\ BulkCompletes(s, "bulk_update_leads")
          => LET e == LastEntry(auditLog') IN
             /\ Len(auditLog') = Len(auditLog) + 1
             /\ e.metadata.count = Cardinality(e.metadata.affectedLeads)
             /\ e.metadata.count = resp'[s].data.modifiedCount
       /\ BulkCompletes(s, "bulk_delete_leads")
          => LET e == LastEntry(auditLog') IN
             /\ Len(auditLog') = Len(auditLog) + 1
             /\ e.metadata.count = Cardinality(e.metadata.deletedLeads)
             /\ e.metadata.count = resp'[s].data.deletedCount]_vars

\* ------------------------------------------------------------ concurrent updates
\* Slot s resumes an update of a lead and completes it.
UpdateCompletes(s) ==
  /\ req[s].pc = "write" /\ req[s].op \in {"put_lead", "patch_lead"}
  /\ req'[s].pc = "done"

\* C21: the store write of an update sets exactly the fields of that update
\* and leaves every other field of the lead as the store holds it at that
\* moment: of two concurrent updates the one written last wins the fields
\* both set, and a field only one of them sets keeps that update's value.
C21_LastWriteWinsPerField ==
  [][\A s \in Slots :
       (UpdateCompletes(s) /\ req[s].id \in DOMAIN leads)
       => /\ req[s].id \in DOMAIN leads'
          /\ \A k \in LeadFields :
               leads'[req[s].id][k] = IF k \in DOMAIN req[s].updateFields
                                      THEN req[s].updateFields[k]
                                      ELSE leads[req[s].id][k]
          /\ \A other \in DOMAIN leads \ {req[s].id} : leads'[other] = leads[other]]_vars

\* Both updates read the lead before either wrote it, both were answered 200,
\* both set status, and the notes only one of them set are still stored.
C21_Witness ==
  /\ req["r1"].pc = "done" /\ req["r2"].pc = "done"
  /\ req["r1"].op = "put_lead" /\ req["r2"].op = "patch_lead"
  /\ resp["r1"].status = 200 /\ resp["r2"].status = 200
  /\ req["r1"].id = req["r2"].id
  /\ req["r1"].originalLead.status = "New" /\ req["r2"].originalLead.status = "New"
  /\ req["r1"].updateFields = [status |-> "Contacted"]
  /\ req["r2"].updateFields = [status |-> "Converted", notes |-> "called"]
  /\ leads[req["r1"].id].notes = "called"
  /\ leads[req["r1"].id].status = "Contacted"

\* ------------------------------------------------------------ validation
Refused(r) == r.status \in {400, 409}

\* C22: a request answered 400 or 409 is answered in its first step, before
\* any mutating store call: that step, and so the whole request, leaves every
\* document and every log as it was.
C22_ChecksBeforeWrites ==
  [][\A s \in Slots :
       (Refused(resp'[s]) /\ (resp'[s] # resp[s] \/ req'[s] # req[s]))
       => /\ req[s].pc \in {"idle", "done"}
          /\ req'[s].pc = "done"
          /\ docs' = docs
          /\ logs' = logs]_vars

\* A lead creation carrying a stored email has been refused.
C22_Witness ==
  /\ req["r1"].pc = "done" /\ req["r1"].op = "create_user"
  /\ resp["r1"].status = 409
  /\ DOMAIN leads = {"l1"}

\* ------------------------------------------------------------ audit log
\* C23: every step leaves the entries the audit log already holds in place and
\* unchanged; the log of a state is a prefix of the log of every later state.
C23_AuditLogAppendOnly ==
  [][/\ Len(auditLog') >= Len(auditLog)
     /\ \A i \in 1..Len(auditLog) : auditLog'[i] = auditLog[i]]_vars

\* A second entry has been appended behind the first, and the log was read.
C23_Witness ==
  /\ Len(auditLog) = 2
  /\ auditLog[1].action # auditLog[2].action
  /\ req["r1"].pc = "done" /\ req["r1"].op \in {"delete_admin", "update_admin"}

\* ------------------------------------------------- restriction scenario
\* C24: with restriction mode on, a PATCH of an EditMode user U on a lead not
\* assigned to U is answered 403 with restricted true and changes neither the
\* lead nor the audit log; on a lead assigned to U (after an Admin assigned
\* it) the PATCH is answered 200, the lead holds the fields sent, and the
\* entry logged is update_lead whose updateFields.status is {from: the status
\* before, to: the status sent}.
C24_RestrictionScenario ==
  [][\A s \in Slots :
       (/\ req'[s] # req[s]
        /\ req'[s].op = "patch_lead"
        /\ req'[s].admin \in tokens /\ req'[s].admin.role = "EditMode"
        /\ restrictLeadEditing
        /\ req'[s].id \in DOMAIN leads)
       => LET U == req'[s].admin.id
              L == req'[s].id
          IN /\ (TakesUp(s) /\ leads[L].assignedTo # U)
                  => /\ resp'[s].status = 403 /\ resp'[s].restricted
                     /\ req'[s].pc = "done"
                     /\ leads' = leads /\ auditLog' = auditLog
             /\ (TakesUp(s) /\ leads[L].assignedTo = U)
                  => /\ req'[s].pc = "write"
                     /\ leads' = leads /\ auditLog' = auditLog
             /\ req[s].pc = "write"
                  => /\ resp'[s].status = 200
                     /\ \A k \in DOMAIN req[s].updateFields :
                          leads'[L][k] = req[s].updateFields[k]
                     /\ Len(auditLog') = Len(auditLog) + 1
                     /\ LastEntry(auditLog').action = "update_lead"
                     /\ LastEntry(auditLog').adminId = U
                     /\ "status" \in DOMAIN req[s].updateFields
                          => LastEntry(auditLog').metadata.updateFields["status"]
                               = [from |-> leads[L].status,
                                  to |-> req[s].updateFields["status"]]]_vars

\* The scenario, request by request: U's PATCH of the unassigned lead denied,
\* the Admin's assignment, U's PATCH of the status written and logged.
C24_Witness ==
  /\ \A s \in Slots : req[s].pc = "done" /\ req[s].id = "l1"
  /\ req["r1"].n = 1 /\ req["r1"].admin.id = "a2"
  /\ resp["r1"].status = 403 /\ resp["r1"].restricted
  /\ req["r2"].n = 2 /\ req["r2"].admin.role = "Admin"
  /\ req["r2"].updateFields = [assignedTo |-> "a2"] /\ resp["r2"].status = 200
  /\ req["r3"].n = 3 /\ req["r3"].admin.id = "a2"
  /\ req["r3"].updateFields = [status |-> "Contacted"] /\ resp["r3"].status = 200
  /\ leads["l1"].status = "Contacted" /\ leads["l1"].assignedTo = "a2"
  /\ LastEntry(auditLog).metadata.updateFields
       = [status |-> [from |-> "New", to |-> "Contacted"]]

\* ------------------------------------------------- restriction and reassignment
\* C25: under restriction mode, a PATCH of a ViewMode or EditMode actor
\* changes a lead only if that lead is assigned to the actor at the moment of
\* the write.
C25_WriteOnlyWhileAssigned ==
  [][\A s \in Slots :
       (/\ req[s].pc = "write" /\ req[s].op = "patch_lead"
        /\ req[s].admin.role \in Unprivileged
        /\ restrictLeadEditing
        /\ leads' # leads)
       => /\ req[s].id \in DOMAIN leads
          /\ leads[req[s].id].assignedTo = req[s].admin.id]_vars

\* ------------------------------------------------------- lead identity
\* C26: no two stored leads have the same email, and no two the same contact.
C26_NoDuplicateLeads ==
  \A a, b \in DOMAIN leads :
     a # b => /\ leads[a].email # leads[b].email
              /\ leads[a].contact # leads[b].contact

\* ------------------------------------------------- entries and mutations
\* C27: a resumed delete or update of a lead appends its delete_lead or
\* update_lead entry, and answers 200, only if its store call applied to a
\* lead that was there: the second of two deletes of one lead, and an update
\* whose lead was deleted after it was read, log nothing and do not answer 200.
C27_EntryPerAppliedMutation ==
  [][\A s \in Slots :
       (/\ req[s].pc = "write" /\ req'[s].pc = "done"
        /\ req[s].op \in {"delete_lead", "put_lead", "patch_lead"}
        /\ (Len(auditLog') > Len(auditLog) \/ resp'[s].status = 200))
       => req[s].id \in DOMAIN leads]_vars

\* ------------------------------------------------------------ role changes
\* The role stored for the admin is no longer the role the token carries.
RoleChanged(cred) == cred.id \in DOMAIN admins /\ admins[cred.id].role # cred.role

\* C28: a token carries the role its admin had when it was issued, and a
\* gated request made with a token whose admin has another role by now passes
\* token verification and is judged by the role gate on the token's role.
C28_GateUsesTokenRole ==
  [][/\ \A s \in Slots :
          (TakesUp(s) /\ req'[s].op \in GatedOps /\ req'[s].admin \in tokens
             /\ RoleChanged(req'[s].admin))
          => /\ resp'[s].status # 401
             /\ RoleDenied(resp'[s]) <=> req'[s].admin.role \notin Whitelist(req'[s].op)
     /\ \A t \in tokens' \ tokens :
          t.id \in DOMAIN admins /\ t.role = admins[t.id].role]_vars

\* An admin whose role was changed from Admin to ViewMode has read the audit
\* log with the token issued before the change.
C28_Witness ==
  /\ req["r1"].pc = "done" /\ req["r1"].op = "audit_logs"
  /\ req["r1"].admin \in tokens /\ req["r1"].admin.role = "Admin"
  /\ req["r1"].admin.id \in DOMAIN admins
  /\ admins[req["r1"].admin.id].role = "ViewMode"
  /\ resp["r1"].status = 200

\* ------------------------------------------------------------ ViewMode
\* The fields a ViewMode user may set.
ViewModeFields == {"status", "contactedScore", "contactedComment"}

\* C29: a step of a request made with a ViewMode token stores and removes no
\* lead, and changes a lead only as PATCH /api/leads/:id: there it changes at
\* most status, contactedScore and contactedComment of the lead named, and
\* whatever else the body held is not written.
C29_ViewModeFields ==
  [][\A s \in Slots :
       (/\ req'[s] # req[s]
        /\ req'[s].admin \in tokens /\ req'[s].admin.role = "ViewMode")
       => /\ DOMAIN leads' = DOMAIN leads
          /\ req'[s].op # "patch_lead" => leads' = leads
          /\ \A l \in DOMAIN leads :
               /\ l # req'[s].id => leads'[l] = leads[l]
               /\ \A k \in LeadFields \ ViewModeFields : leads'[l][k] = leads[l][k]]_vars

\* A ViewMode user has sent status and notes in a PATCH: the status is
\* written, the notes are not.
C29_Witness ==
  /\ req["r1"].pc = "done" /\ req["r1"].op = "patch_lead"
  /\ req["r1"].admin \in tokens /\ req["r1"].admin.role = "ViewMode"
  /\ resp["r1"].status = 200
  /\ req["r1"].updateFields = [status |-> "Converted"]
  /\ leads["l1"].status = "Converted" /\ leads["l1"].notes = ""

====
